---- MODULE Spec2Model ----
(***************************************************************************)
(* gat-cli: the GatApi SDK (src/gat/client.py, src/gat/data.py) and the    *)
(* click command-line front end (src/gat-cli.py).                          *)
(*                                                                         *)
(* A behaviour is one process: either client code that constructs a        *)
(* GatApi and invokes one SDK method on it, or one run of a CLI command.   *)
(* The remote service is the environment: every HTTP request is answered   *)
(* by a response drawn from a bounded set of status codes, header sets     *)
(* and bodies.  Python strings are TLA+ strings, dicts are functions with  *)
(* a string domain, lists are sequences, exceptions are outcome records.   *)
(***************************************************************************)
EXTENDS FiniteSets, Integers, Sequences, TLC

VARIABLES
    pc,          \* "start" | "sdk" | "sdk_done" | "cli" | "exited"
    api,         \* the GatApi object (its configuration), NoApi before construction
    environ,     \* os.environ of the process
    command,     \* the CLI command line being run, NoCommand outside a CLI run
    step,        \* number of SDK invocations the CLI command has completed
    locals,      \* local variables of the running CLI command
    invoked,     \* SDK methods invoked so far, in order
    sent,        \* HTTP requests issued so far, in order
    invocation,  \* the SDK invocation made last: the method and its arguments
    response,    \* the response to the last invocation's request, NoResponse if none
    call_result, \* what GatApi.__call returned or raised in the last invocation
    result,      \* what the last SDK invocation returned or raised
    exit_code,   \* exit status of the process, once pc = "exited"
    stdout,      \* lines written by click.echo
    stderr       \* messages of uncaught exceptions (the interpreter's traceback)

vars == <<pc, api, environ, command, step, locals, invoked, sent, invocation, response,
          call_result, result, exit_code, stdout, stderr>>

(***************************************************************************)
(* Bounds of the model.                                                    *)
(***************************************************************************)
MaxErrors == 2        \* longest "errors" array of an error document
MaxRecords == 2       \* longest "data" array of a collection document
MaxInstructions == 2  \* most instructions of a test case

SeqUpTo(S, n) == UNION {[1..k -> S] : k \in 0..n}

(***************************************************************************)
(* Python values.                                                          *)
(***************************************************************************)
None == "None"                  \* None in a slot that otherwise holds a str
NoneObj == [py |-> "None"]      \* None in a slot that otherwise holds a dict
EmptyDict == [k \in {} |-> ""]  \* {}

Truthy(d) == d /= NoneObj /\ d /= EmptyDict

Contains(sub, s) ==             \* sub in s, on strings
    \E i \in 1..(Len(s) - Len(sub) + 1) : SubSeq(s, i, i + Len(sub) - 1) = sub

startswith(s, prefix) == Len(s) >= Len(prefix) /\ SubSeq(s, 1, Len(prefix)) = prefix

endswith(s, suffix) ==
    Len(s) >= Len(suffix) /\ SubSeq(s, Len(s) - Len(suffix) + 1, Len(s)) = suffix

\* path_join putting nothing between the two components
path_join_plain(a, b) == a \o b

\* os.path.join of two components (posixpath)
path_join(a, b) ==
    IF startswith(b, "/") THEN b
    ELSE IF a = "" \/ endswith(a, "/") THEN a \o b
    ELSE a \o "/" \o b

(***************************************************************************)
(* Outcomes of a call: a returned value or a raised exception.             *)
(***************************************************************************)
Return(v) == [raised |-> FALSE, value |-> v]
Raise(exc, message) == [raised |-> TRUE, exc |-> exc, message |-> message]
GatError(message) == Raise("GatError", message)

PyNone == [py |-> "None"]
PyStr(text) == [py |-> "str", s |-> text]
PyInt == [py |-> "int"]
PyDict(doc) == [py |-> "dict", d |-> doc]

\* value[key] on what __call returned
Subscript(o, key) ==
    IF o.raised THEN o
    ELSE IF o.value.py = "dict"
         THEN IF key \in DOMAIN o.value.d THEN Return(o.value.d[key])
              ELSE Raise("KeyError", key)
         ELSE Raise("TypeError", o.value.py)

(***************************************************************************)
(* The configuration holder.                                               *)
(***************************************************************************)
DefaultRoot == "https://app.globalapptesting.com/api/"

\* GatApiConfiguration without __post_init__: the session keeps the headers it was
\* created with
GatApiConfiguration_without_post_init(key, root) ==
    [key |-> key,
     root |-> root,
     version |-> "v1",
     session |-> [headers |-> ("User-Agent" :> "python-requests")]]

\* GatApiConfiguration creating no session when it is constructed
GatApiConfiguration_lazy(key, root) ==
    [key |-> key, root |-> root, version |-> "v1", session |-> NoneObj]

\* the session is created, and its headers are set, when the holder is constructed
GatApiConfiguration(key, root) ==
    [key |-> key,
     root |-> root,
     version |-> "v1",
     session |-> [headers |-> ("User-Agent" :> "gat.py") @@ ("X-Api-Key" :> key)]]

uri(configuration) == path_join(configuration.root, configuration.version)

NoApi == [key |-> None]

(***************************************************************************)
(* HTTP responses.                                                         *)
(***************************************************************************)
JsonApi == "application/vnd.api+json"

response_json(r) ==
    IF r.body.kind = "text" THEN Raise("JSONDecodeError", r.body.text)
    ELSE IF r.body.kind = "number" THEN Return(PyInt)
    ELSE Return(PyDict(r.body.doc))

(***************************************************************************)
(* GatApi.__call: one request, then the classification of the response.    *)
(***************************************************************************)
\* request_headers giving the default content type to every request
request_headers_always(data, headers) ==
    IF Truthy(headers) THEN headers ELSE ("Content-Type" :> JsonApi)

request_headers(data, headers) ==
    IF Truthy(data) THEN (IF Truthy(headers) THEN headers ELSE ("Content-Type" :> JsonApi))
    ELSE EmptyDict

\* raise_for_errors reading the last error of the array instead of the first
raise_for_last_error(status_code, errors) ==
    IF Len(errors) = 0 THEN Raise("IndexError", "list index out of range")
    ELSE LET first_error == errors[Len(errors)] IN
         IF "title" \notin DOMAIN first_error THEN Raise("KeyError", "title")
         ELSE LET error_message ==
                      IF "detail" \in DOMAIN first_error
                      THEN first_error["title"] \o " - " \o first_error["detail"]
                      ELSE first_error["title"]
              IN GatError("Call failed: " \o ToString(status_code) \o ": "
                              \o error_message)

\* lines 72-76: the GatError of a 4xx response that carries an "errors" array
raise_for_errors(status_code, errors) ==
    IF Len(errors) = 0 THEN Raise("IndexError", "list index out of range")
    ELSE LET first_error == errors[1] IN
         IF "title" \notin DOMAIN first_error THEN Raise("KeyError", "title")
         ELSE LET error_message ==
                      IF "detail" \in DOMAIN first_error
                      THEN first_error["title"] \o " - " \o first_error["detail"]
                      ELSE first_error["title"]
              IN GatError("Call failed: " \o ToString(status_code) \o ": "
                              \o error_message)

\* lines 71-77: a status that is none of 200, 201, 204
classify_error(r) ==
    IF 400 <= r.status_code /\ r.status_code < 500
    THEN LET j == response_json(r) IN
         IF j.raised THEN j
         ELSE IF j.value.py /= "dict" THEN Raise("TypeError", j.value.py)
         ELSE IF "errors" \in DOMAIN j.value.d
         THEN raise_for_errors(r.status_code, j.value.d["errors"])
         ELSE GatError("Call failed: " \o ToString(r.status_code))
    ELSE GatError("Call failed: " \o ToString(r.status_code))

\* classify without the branch of status 204
classify_without_204(r) ==
    IF r.status_code \in {200, 201}
    THEN IF "Content-Type" \notin DOMAIN r.headers THEN Raise("KeyError", "Content-Type")
         ELSE IF Contains(JsonApi, r.headers["Content-Type"]) THEN response_json(r)
         ELSE Return(PyStr(r.body.text))
    ELSE classify_error(r)

\* lines 61-70
classify(r) ==
    IF r.status_code \in {200, 201}
    THEN IF "Content-Type" \notin DOMAIN r.headers THEN Raise("KeyError", "Content-Type")
         ELSE IF Contains(JsonApi, r.headers["Content-Type"]) THEN response_json(r)
         ELSE Return(PyStr(r.body.text))
    ELSE IF r.status_code = 204 THEN Return(PyNone)
    ELSE classify_error(r)

\* the headers requests puts on the wire: those of the request over those of the session
merge_setting(request_setting, session_setting) == request_setting @@ session_setting

__call(configuration, method, suffix, json_data, data, files, headers, r) ==
    [request |-> [session |-> configuration.session,
                  method |-> method,
                  url |-> path_join(uri(configuration), suffix),
                  headers |-> request_headers(data, headers),
                  json |-> json_data,
                  data |-> data,
                  files |-> files],
     outcome |-> classify(r)]

(***************************************************************************)
(* The data records of src/gat/data.py.                                    *)
(***************************************************************************)
Organization(id, name) == [type |-> "organization", id |-> id, name |-> name]

Application(id, name, platform_name) ==
    [type |-> "application", id |-> id, name |-> name, platform_name |-> platform_name]

Environment(id, name, url) ==
    [type |-> "applicationEnvironment", id |-> id, name |-> name, url |-> url]

NativeBuild(id, name, original_file_name, external_vendor_url, signing_status) ==
    [type |-> "nativeApplicationBuild", id |-> id, name |-> name,
     original_file_name |-> original_file_name,
     external_vendor_url |-> external_vendor_url,
     signing_status |-> signing_status]

InternetBrowser(id, name, operating_system_name) ==
    [type |-> "internetBrowser", id |-> id, name |-> name,
     operating_system_name |-> operating_system_name]

MobileDevice(id, name, brand_name) ==
    [type |-> "mobileDevice", id |-> id, name |-> name, brand_name |-> brand_name]

TestCaseRunsBatchState(id, state, total_count, in_progress_count, completed_count, failed_count, passed_count, cancelled_count) ==
    [type |-> "testCaseRunsBatchState", id |-> id, state |-> state,
     total_count |-> total_count, in_progress_count |-> in_progress_count,
     completed_count |-> completed_count, failed_count |-> failed_count,
     passed_count |-> passed_count, cancelled_count |-> cancelled_count]

TestCaseRunsBatchTestCaseRun(id, name, ada_url, failed_results_count, passed_results_count, total_results_count) ==
    [type |-> "testCaseRun", id |-> id, name |-> name, ada_url |-> ada_url,
     failed_results_count |-> failed_results_count,
     passed_results_count |-> passed_results_count,
     total_results_count |-> total_results_count]

TestCaseRunsBatchSummary(id, name, start_time, finish_time, test_case_credits, testers_involved, application_id, environment_id, test_case_runs) ==
    [type |-> "testCaseRunsBatchSummary", id |-> id, name |-> name,
     start_time |-> start_time, finish_time |-> finish_time,
     test_case_credits |-> test_case_credits, testers_involved |-> testers_involved,
     application_id |-> application_id, environment_id |-> environment_id,
     test_case_runs |-> test_case_runs]

TestCaseRunsBatch(id) == [type |-> "testCaseRunsBatch", id |-> id]

TestCaseInstruction(id, content, assertion) ==
    [type |-> "testCaseInstruction", id |-> id, content |-> content,
     assertion |-> assertion]

EmbeddedTestCase(id) == [type |-> "testCase", id |-> id]

TestCase(id, title, importance, section, instructions) ==
    [type |-> "testCase", id |-> id, title |-> title, importance |-> importance,
     section |-> section, instructions |-> instructions]

Country(id, name, code, available_platforms) ==
    [type |-> "country", id |-> id, name |-> name, code |-> code,
     available_platforms |-> available_platforms]

TestCaseRunResult(outcome, attachment_url, tester_comment, steps_to_reproduce, reported_at, country) ==
    [outcome |-> outcome, attachment_url |-> attachment_url,
     tester_comment |-> tester_comment, steps_to_reproduce |-> steps_to_reproduce,
     reported_at |-> reported_at, country |-> country]

Variation(name, results) == [name |-> name, results |-> results]

TestCaseRun(id, test_case_name, test_case_section, test_case_importance, ada_url, variations) ==
    [type |-> "testCaseRun", id |-> id, test_case_name |-> test_case_name,
     test_case_section |-> test_case_section,
     test_case_importance |-> test_case_importance, ada_url |-> ada_url,
     variations |-> variations]

(***************************************************************************)
(* Helpers of the resource mappers.                                        *)
(***************************************************************************)
Get(d, key) == IF key \in DOMAIN d THEN d[key] ELSE None   \* dict.get(key)

Map(f(_), list) == [i \in 1..Len(list) |-> f(list[i])]     \* [f(x) for x in list]

Min(S) == CHOOSE x \in S : \A y \in S : x <= y

\* next_by_id without the filter on the id
next_by_id_unfiltered(list, id, what) ==
    IF Len(list) = 0 THEN GatError("No " \o what \o " with ID " \o id)
    ELSE Return(list[1])

\* next(x for x in list if x.id == id), and the GatError that replaces StopIteration
next_by_id(list, id, what) ==
    LET matches == {i \in 1..Len(list) : list[i].id = id} IN
    IF matches = {} THEN GatError("No " \o what \o " with ID " \o id)
    ELSE Return(list[Min(matches)])

RECURSIVE replace(_, _, _)
replace(s, old, new) ==                                     \* str.replace
    IF Len(s) < Len(old) THEN s
    ELSE IF startswith(s, old)
         THEN new \o replace(SubSeq(s, Len(old) + 1, Len(s)), old, new)
         ELSE SubSeq(s, 1, 1) \o replace(SubSeq(s, 2, Len(s)), old, new)

RECURSIVE join(_, _)
join(sep, list) ==                                          \* sep.join(list)
    IF Len(list) = 0 THEN ""
    ELSE IF Len(list) = 1 THEN list[1]
    ELSE list[1] \o sep \o join(sep, Tail(list))

__parse_time(string_time) ==
    IF string_time = None \/ string_time = "" THEN None
    ELSE "datetime:" \o replace(string_time, "Z", "+00:00")

\* self.__call(...)["data"] mapped by f: the request, what __call did, the outcome
Mapped(c, f(_)) ==
    LET d == Subscript(c.outcome, "data") IN
    [request |-> <<c.request>>,
     call |-> c.outcome,
     outcome |-> IF d.raised THEN d ELSE Return(f(d.value))]

\* self.__call(...) with the returned value dropped
Dropped(c) ==
    [request |-> <<c.request>>,
     call |-> c.outcome,
     outcome |-> IF c.outcome.raised THEN c.outcome ELSE Return(PyNone)]

\* a lookup over the list another method returned
Lookup(m, id, what) ==
    [m EXCEPT !.outcome = IF m.outcome.raised THEN m.outcome
                          ELSE next_by_id(m.outcome.value, id, what)]

(***************************************************************************)
(* The SDK methods of GatApi.  self is the configuration, r the response   *)
(* the service gives to the request the method issues.                     *)
(***************************************************************************)
whoami(self, r) ==
    Mapped(__call(self, "GET", "whoami", NoneObj, NoneObj, NoneObj, NoneObj, r),
           LAMBDA organization_data :
               Organization(organization_data.id, organization_data.attributes.name))

to_application(app) == Application(app.id, app.attributes.name, app.attributes.platformName)

applications(self, r) ==
    Mapped(__call(self, "GET", "applications", NoneObj, NoneObj, NoneObj, NoneObj, r),
           LAMBDA data : Map(to_application, data))

\* application_by_id asking a get-by-id endpoint: the id is part of the URL
application_by_id_get(self, id, r) ==
    LET m == Lookup(applications(self, r), id, "application") IN
    [m EXCEPT !.request = <<[m.request[1] EXCEPT !.url = @ \o "/" \o id]>>]

application_by_id(self, id, r) == Lookup(applications(self, r), id, "application")

to_environment(env) == Environment(env.id, env.attributes.name, env.attributes.url)

environments(self, application, r) ==
    Mapped(__call(self, "GET", "applications/" \o application.id \o "/environments",
                  NoneObj, NoneObj, NoneObj, NoneObj, r),
           LAMBDA data : Map(to_environment, data))

environment_by_id(self, application, id, r) ==
    Lookup(environments(self, application, r), id, "environment")

environment_document(name, url) ==
    [data |-> [type |-> "applicationEnvironment",
               attributes |-> [name |-> name, url |-> url]]]

create_environment(self, application, name, url, r) ==
    Mapped(__call(self, "POST", "applications/" \o application.id \o "/environments",
                  environment_document(name, url), NoneObj, NoneObj, NoneObj, r),
           to_environment)

delete_environment(self, application, environment, r) ==
    Dropped(__call(self, "DELETE",
                   "applications/" \o application.id \o "/environments/" \o environment.id,
                   NoneObj, NoneObj, NoneObj, NoneObj, r))

\* update_environment building the returned record from its arguments
update_environment_from_arguments(self, application, environment, name, url, r) ==
    Mapped(__call(self, "PATCH",
                  "applications/" \o application.id \o "/environments/" \o environment.id,
                  environment_document(name, url), NoneObj, NoneObj, NoneObj, r),
           LAMBDA new_env : Environment(environment.id, name, url))

update_environment(self, application, environment, name, url, r) ==
    Mapped(__call(self, "PATCH",
                  "applications/" \o application.id \o "/environments/" \o environment.id,
                  environment_document(name, url), NoneObj, NoneObj, NoneObj, r),
           to_environment)

to_native_build(build) ==
    NativeBuild(build.id, build.attributes.name,
                Get(build.attributes, "appFileOriginalFilename"),
                Get(build.attributes, "externalVendorUrl"),
                build.attributes.signingStatus)

native_builds(self, application, r) ==
    Mapped(__call(self, "GET",
                  "applications/" \o application.id \o "/native_application_builds",
                  NoneObj, NoneObj, NoneObj, NoneObj, r),
           LAMBDA data : Map(to_native_build, data))

native_build_by_id(self, application, id, r) ==
    Lookup(native_builds(self, application, r), id, "native build")

delete_native_build(self, application, id, r) ==
    Dropped(__call(self, "DELETE",
                   "applications/" \o application.id \o "/native_application_builds/" \o id,
                   NoneObj, NoneObj, NoneObj, NoneObj, r))

update_native_build(self, application, native_build, name, r) ==
    Mapped(__call(self, "PATCH",
                  "applications/" \o application.id \o "/native_application_builds/"
                      \o native_build.id,
                  [data |-> [type |-> "nativeApplicationBuild",
                             attributes |-> [name |-> name]]],
                  NoneObj, NoneObj, NoneObj, r),
           to_native_build)

\* __is_url asking for the scheme separator too
__is_url_with_scheme(build) == startswith(build, "https://")

__is_url(build) == startswith(build, "http")

\* open(path, "rb") on a filesystem holding the files fs
__get_files(path, fs) ==
    IF path \in fs
    THEN Return([py |-> "list", l |-> << <<"data[attributes][app_file]", path>> >>])
    ELSE Raise("FileNotFoundError", path)

__get_headers_with_content_type(build) ==
    IF __is_url(build) THEN ("Content-Type" :> "multipart/form-data") ELSE EmptyDict

create_native_build(self, application, name, build, fs, r) ==
    LET files == IF __is_url(build) THEN Return(NoneObj) ELSE __get_files(build, fs)
        external_vendor_url == IF __is_url(build) THEN build ELSE None
    IN IF files.raised
       THEN [request |-> <<>>, call |-> files, outcome |-> files]   \* open() raised
       ELSE Mapped(__call(self, "POST",
                          "applications/" \o application.id \o "/native_application_builds",
                          NoneObj,
                          ("data[type]" :> "nativeApplicationBuild")
                              @@ ("data[attributes][name]" :> name)
                              @@ ("data[attributes][external_vendor_url]"
                                      :> external_vendor_url),
                          files.value,
                          __get_headers_with_content_type(build), r),
                   to_native_build)

to_internet_browser(ib) ==
    InternetBrowser(ib.id, ib.attributes.name, ib.attributes.operatingSystemName)

internet_browsers(self, r) ==
    Mapped(__call(self, "GET", "internet_browsers", NoneObj, NoneObj, NoneObj, NoneObj, r),
           LAMBDA data : Map(to_internet_browser, data))

to_mobile_device(md) == MobileDevice(md.id, md.attributes.name, md.attributes.brandName)

mobile_devices(self, r) ==
    Mapped(__call(self, "GET", "mobile_devices", NoneObj, NoneObj, NoneObj, NoneObj, r),
           LAMBDA data : Map(to_mobile_device, data))

to_batch_state(state_data) ==
    TestCaseRunsBatchState(state_data.id, state_data.attributes.state,
                           state_data.attributes.totalCount,
                           state_data.attributes.inProgressCount,
                           state_data.attributes.completedCount,
                           state_data.attributes.failedCount,
                           state_data.attributes.passedCount,
                           state_data.attributes.cancelledCount)

test_case_runs_batch_state(self, application, id, r) ==
    Mapped(__call(self, "GET",
                  "applications/" \o application.id \o "/test_case_runs_batches/" \o id
                      \o "/state",
                  NoneObj, NoneObj, NoneObj, NoneObj, r),
           to_batch_state)

to_batch_test_case_run(data) ==
    TestCaseRunsBatchTestCaseRun(data.id, data.attributes.name, data.attributes.adaUrl,
                                 data.attributes.failedResultsCount,
                                 data.attributes.passedResultsCount,
                                 data.attributes.totalResultsCount)

to_batch_summary(summary_data, included) ==
    TestCaseRunsBatchSummary(summary_data.id, summary_data.attributes.name,
                             __parse_time(summary_data.attributes.startTime),
                             __parse_time(summary_data.attributes.finishTime),
                             summary_data.attributes.testCaseCredits,
                             summary_data.attributes.testersInvolved,
                             summary_data.relationships.application.data.id,
                             summary_data.relationships.environment.data.id,
                             Map(to_batch_test_case_run, included[1].data))

test_case_runs_batch_summary(self, application, id, r) ==
    LET c == __call(self, "GET",
                    "applications/" \o application.id \o "/test_case_runs_batches/" \o id
                        \o "/summary",
                    NoneObj, NoneObj, NoneObj, NoneObj, r)
        summary_data == Subscript(c.outcome, "data")
        included == Subscript(c.outcome, "included")
    IN [request |-> <<c.request>>,
        call |-> c.outcome,
        outcome |-> IF summary_data.raised THEN summary_data
                    ELSE IF included.raised THEN included
                    ELSE IF Len(included.value) = 0
                    THEN Raise("IndexError", "list index out of range")
                    ELSE Return(to_batch_summary(summary_data.value, included.value))]

batch_document(environment, internet_browsers_, test_cases_) ==
    [data |->
        [type |-> "testCaseRunsBatch",
         attributes |-> EmptyDict,
         relationships |->
            [applicationEnvironment |->
                [data |-> [type |-> "applicationEnvironment", id |-> environment.id]],
             internetBrowsers |->
                [data |-> Map(LAMBDA ib : [type |-> "internetBrowser", id |-> ib.id],
                              internet_browsers_)],
             testCases |->
                [data |-> Map(LAMBDA tc : [type |-> "testCase", id |-> tc.id],
                              test_cases_)]]]]

create_test_case_runs_batch(self, application, environment, internet_browsers_, test_cases_, r) ==
    Mapped(__call(self, "POST",
                  "applications/" \o application.id \o "/test_case_runs_batches",
                  batch_document(environment, internet_browsers_, test_cases_),
                  NoneObj, NoneObj, NoneObj, r),
           LAMBDA test_case_runs_batch_data :
               TestCaseRunsBatch(test_case_runs_batch_data.id))

to_listed_test_case(test_case) ==
    TestCase(test_case.id, test_case.attributes.title, None, None, <<>>)

test_cases(self, application, r) ==
    Mapped(__call(self, "GET", "applications/" \o application.id \o "/test_cases",
                  NoneObj, NoneObj, NoneObj, NoneObj, r),
           LAMBDA data : Map(to_listed_test_case, data))

delete_all_test_cases(self, application, r) ==
    Dropped(__call(self, "DELETE",
                   "applications/" \o application.id \o "/test_cases/delete_all",
                   NoneObj, NoneObj, NoneObj, NoneObj, r))

delete_test_cases(self, application, ids, r) ==
    Dropped(__call(self, "DELETE",
                   "applications/" \o application.id \o "/test_cases?ids="
                       \o join(",", ids),
                   NoneObj, NoneObj, NoneObj, NoneObj, r))

encode_instruction(i) ==
    IF i.type = "testCase" THEN [type |-> i.type, id |-> i.id]
    ELSE [type |-> i.type,
          attributes |-> [content |-> i.content, assertion |-> i.assertion]]

encode_test_case(test_case) ==
    [type |-> test_case.type,
     attributes |-> [title |-> test_case.title,
                     importance |-> test_case.importance,
                     section |-> test_case.section,
                     instructions |-> Map(encode_instruction, test_case.instructions)]]

\* a list comprehension whose element expression may raise: the first exception, in
\* list order, or the list of the values
Collect(outcomes) ==
    LET bad == {k \in 1..Len(outcomes) : outcomes[k].raised} IN
    IF bad /= {} THEN outcomes[Min(bad)]
    ELSE Return([k \in 1..Len(outcomes) |-> outcomes[k].value])

decode_instruction(i) ==
    IF "id" \notin DOMAIN i THEN Raise("KeyError", "id")
    ELSE IF "attributes" \notin DOMAIN i THEN Raise("KeyError", "attributes")
    ELSE Return(TestCaseInstruction(i.id, i.attributes.content, i.attributes.assertion))

decode_test_case(test_case) ==
    LET instructions == Collect(Map(decode_instruction, test_case.attributes.instructions))
    IN IF instructions.raised THEN instructions
       ELSE Return(TestCase(test_case.id, test_case.attributes.title,
                            test_case.attributes.importance,
                            test_case.attributes.section, instructions.value))

create_test_cases(self, application, test_cases_, r) ==
    LET c == __call(self, "POST",
                    "applications/" \o application.id \o "/test_cases/import",
                    [data |-> Map(encode_test_case, test_cases_)],
                    NoneObj, NoneObj, NoneObj, r)
        d == Subscript(c.outcome, "data")
    IN [request |-> <<c.request>>,
        call |-> c.outcome,
        outcome |-> IF d.raised THEN d ELSE Collect(Map(decode_test_case, d.value))]

to_country(country) ==
    Country(country.id, country.attributes.name, country.attributes.code,
            country.attributes.availablePlatforms)

countries(self, r) ==
    Mapped(__call(self, "GET", "countries", NoneObj, NoneObj, NoneObj, NoneObj, r),
           LAMBDA data : Map(to_country, data))

\* str() of a tuple or a list of strings, as an f-string formats it
py_str(value) ==
    IF value.py = "str" THEN value.s
    ELSE LET quoted == Map(LAMBDA x : "'" \o x \o "'", value.l) IN
         IF value.py = "list" THEN "[" \o join(", ", quoted) \o "]"
         ELSE IF Len(quoted) = 1 THEN "(" \o quoted[1] \o ",)"
         ELSE "(" \o join(", ", quoted) \o ")"

\* has_value taking every value but None as a value
has_value_not_none(value) == value.py /= "None"

\* the truth value of an optional str, tuple or list
has_value(value) ==
    /\ value.py /= "None"
    /\ IF value.py = "str" THEN value.s /= "" ELSE Len(value.l) > 0

filters(test_case_run_ids, outcome, importance) ==
    LET items == << <<"ids", test_case_run_ids>>, <<"outcome", outcome>>,
                    <<"importance", importance>> >>
        kept == SelectSeq(items, LAMBDA item : has_value(item[2]))
    IN Map(LAMBDA item : "filter[" \o item[1] \o "]=" \o py_str(item[2]), kept)

to_result(result_) ==
    TestCaseRunResult(result_.outcome, Get(result_, "attachmentUrl"),
                      result_.testerComment, result_.stepsToReproduce,
                      __parse_time(result_.reportedAt), result_.country)

to_variation(variation) == Variation(variation.name, Map(to_result, variation.results))

to_test_case_run(test_case_run) ==
    TestCaseRun(test_case_run.id, test_case_run.attributes.testCaseName,
                test_case_run.attributes.testCaseSection,
                test_case_run.attributes.testCaseImportance,
                test_case_run.attributes.adaUrl,
                Map(to_variation, test_case_run.attributes.variations))

test_case_runs(self, application, batch_id, test_case_run_ids, outcome, importance, r) ==
    LET fs == filters(test_case_run_ids, outcome, importance) IN
    Mapped(__call(self, "GET",
                  "applications/" \o application.id \o "/test_case_runs_batches/"
                      \o batch_id \o "/test_case_runs"
                      \o (IF Len(fs) > 0 THEN "?" \o join("&", fs) ELSE ""),
                  NoneObj, NoneObj, NoneObj, NoneObj, r),
           LAMBDA data : Map(to_test_case_run, data))

(***************************************************************************)
(* The remote service: the JSON:API documents it can answer with.          *)
(***************************************************************************)
Resource(type, id, attributes) == [type |-> type, id |-> id, attributes |-> attributes]

Collections(resources) == SeqUpTo(resources, MaxRecords)

OrganizationResources ==
    {Resource("organization", "o1", [name |-> n]) : n \in {"acme", "globex"}}

ApplicationResources ==
    {Resource("application", i, [name |-> "shop", platformName |-> p]) :
        i \in {"a1", "a2"}, p \in {"ios", "web"}}

EnvironmentResources ==
    {Resource("applicationEnvironment", i, [name |-> n, url |-> "https://" \o n]) :
        i \in {"e1", "e2"}, n \in {"staging", "live"}}

NativeBuildResources ==
    {Resource("nativeApplicationBuild", i, a) :
        i \in {"b1", "b2"},
        a \in {[name |-> "nightly", signingStatus |-> "signed",
                appFileOriginalFilename |-> "shop.ipa"],
               [name |-> "weekly", signingStatus |-> "unsigned",
                externalVendorUrl |-> "https://store/shop"]}}

InternetBrowserResources ==
    {Resource("internetBrowser", i, [name |-> "chrome", operatingSystemName |-> "linux"]) :
        i \in {"ib1", "ib2"}}

MobileDeviceResources ==
    {Resource("mobileDevice", i, [name |-> "pixel", brandName |-> "google"]) :
        i \in {"md1", "md2"}}

BatchStateResources ==
    {Resource("testCaseRunsBatchState", "bt1",
              [state |-> st, totalCount |-> 6, inProgressCount |-> 1,
               completedCount |-> 5, failedCount |-> 2, passedCount |-> 3,
               cancelledCount |-> 0]) : st \in {"running", "finished"}}

BatchRunResources ==
    {Resource("testCaseRun", "r1",
              [name |-> "login", adaUrl |-> "https://ada/r1", failedResultsCount |-> 1,
               passedResultsCount |-> 2, totalResultsCount |-> 3])}

SummaryDocuments ==
    {[data |-> [type |-> "testCaseRunsBatchSummary", id |-> "bt1",
                attributes |-> [name |-> "batch", startTime |-> "2020-01-01T10:00:00Z",
                                finishTime |-> ft, testCaseCredits |-> 4,
                                testersInvolved |-> 7],
                relationships |-> [application |-> [data |-> [id |-> "a1"]],
                                   environment |-> [data |-> [id |-> "e1"]]]],
      included |-> << [data |-> runs] >>] :
        ft \in {None, "2020-01-01T11:00:00Z"}, runs \in Collections(BatchRunResources)}

BatchResources == {Resource("testCaseRunsBatch", i, EmptyDict) : i \in {"bt1", "bt2"}}

InstructionResources ==
    <<[type |-> "testCaseInstruction", id |-> "i1",
       attributes |-> [content |-> "open the cart", assertion |-> FALSE]],
      [type |-> "testCaseInstruction", id |-> "i2",
       attributes |-> [content |-> "is the cart empty?", assertion |-> TRUE]]>>

TestCaseResources ==
    {Resource("testCase", i, [title |-> "cart", importance |-> "Critical",
                              section |-> "checkout", instructions |-> ins]) :
        i \in {"tc1", "tc2"}, ins \in {<<>>, InstructionResources}}

CountryResources ==
    {Resource("country", "c1", [name |-> "Poland", code |-> "PL",
                                availablePlatforms |-> <<"ios", "web">>]),
     Resource("country", "c2", [name |-> "Peru", code |-> "PE",
                                availablePlatforms |-> <<>>])}

ResultObjects ==
    {[outcome |-> "passed", testerComment |-> "fine", stepsToReproduce |-> <<>>,
      reportedAt |-> "2020-01-01T10:30:00Z", country |-> "PL"],
     [outcome |-> "failed", attachmentUrl |-> "https://files/1.png",
      testerComment |-> "broken", stepsToReproduce |-> <<"open", "click">>,
      reportedAt |-> "2020-01-01T10:40:00Z", country |-> "PE"]}

VariationObjects ==
    {[name |-> "chrome", results |-> rs] :
        rs \in {<<>>} \cup {<<x>> : x \in ResultObjects}
                  \cup {<<x, y>> : x \in ResultObjects,
                                   y \in {z \in ResultObjects : z.outcome = "failed"}}}

TestCaseRunResources ==
    {Resource("testCaseRun", "r1",
              [testCaseName |-> "cart", testCaseSection |-> "checkout",
               testCaseImportance |-> "Critical", adaUrl |-> "https://ada/r1",
               variations |-> vs]) :
        vs \in {<<>>} \cup {<<v>> : v \in VariationObjects}}

\* the id the service gives the k-th instruction it stores
server_id(k) == "i" \o ToString(k)

\* the service's echo of a submitted test-case document: it assigns the test case
\* and every new instruction an id and sends the rest back as it received it
echo_instruction(i, k) == IF "id" \in DOMAIN i THEN i ELSE i @@ [id |-> server_id(k)]

echo_test_case(doc) ==
    [type |-> doc.type, id |-> "tc1",
     attributes |-> [doc.attributes EXCEPT
                        !.instructions = [k \in 1..Len(@) |-> echo_instruction(@[k], k)]]]

Echo(json_data) == [data |-> Map(echo_test_case, json_data.data)]

(***************************************************************************)
(* Error documents and the other bodies every endpoint can answer with.    *)
(***************************************************************************)
ErrorObjects ==
    {[title |-> "Not Found"], [title |-> "Not Found", detail |-> "no such record"],
     [detail |-> "no such record"], [title |-> "Forbidden"]}

ErrorDocuments == {[errors |-> es] : es \in SeqUpTo(ErrorObjects, MaxErrors)}

PlainDocument == [meta |-> "none"]

TextBody == [kind |-> "text", text |-> "<html>oops</html>"]
NumberBody == [kind |-> "number", text |-> "5"]
ObjectBody(doc) == [kind |-> "object", text |-> "{...}", doc |-> doc]

Statuses == {200, 201, 202, 204, 302, 400, 499, 500}

ContentTypes == {JsonApi, JsonApi \o "; charset=utf-8", "text/html"}

ResponseHeaders == {EmptyDict} \cup {("Content-Type" :> c) : c \in ContentTypes}

Bodies(documents) ==
    {TextBody, NumberBody}
        \cup {ObjectBody(d) : d \in {PlainDocument} \cup ErrorDocuments}
        \cup {ObjectBody(d) : d \in documents}

Responses(documents) ==
    {[status_code |-> s, headers |-> h, body |-> b] :
        s \in Statuses, h \in ResponseHeaders, b \in Bodies(documents)}

\* the answers a CLI run is explored with: fewer of each kind
CliResponses(documents) ==
    {[status_code |-> s, headers |-> h, body |-> b] :
        s \in {200, 204, 404},
        h \in {("Content-Type" :> JsonApi), ("Content-Type" :> "text/html")},
        b \in {TextBody, ObjectBody([errors |-> <<[title |-> "Not Found"]>>])}
                \cup {ObjectBody(d) : d \in documents}}

(***************************************************************************)
(* Client code using the SDK directly: the invocations explored.           *)
(***************************************************************************)
\* the configurations client code constructs: a key with the default root, and
\* another key with a root of its own that has no trailing "/"
Configurations ==
    {[key |-> "key-0001", root |-> DefaultRoot],
     [key |-> "key-0002", root |-> "http://localhost:8080/api"]}

AnApplication == Application("a1", "shop", "ios")
AnEnvironment == Environment("e1", "staging", "https://staging")
ANativeBuild == NativeBuild("b1", "nightly", "shop.ipa", None, "signed")

Files == {"/builds/shop.ipa", "httpd.ipa"}   \* the files that exist on the disk

InstructionInputs ==
    {TestCaseInstruction("new", "open the cart", FALSE),
     TestCaseInstruction("new", "is the cart empty?", TRUE),
     EmbeddedTestCase("tc7")}

TestCaseInputs ==
    {TestCase("new", "cart", "Medium", None, ins) :
        ins \in SeqUpTo(InstructionInputs, MaxInstructions)}

NoValue == [py |-> "None"]
StrValue(text) == [py |-> "str", s |-> text]
TupleValue(list) == [py |-> "tuple", l |-> list]
ListValue(list) == [py |-> "list", l |-> list]

Invocations ==
    {[method |-> m] : m \in {"whoami", "applications", "internet_browsers",
                             "mobile_devices", "countries"}}
    \cup {[method |-> "application_by_id", id |-> i] : i \in {"a2", "a3"}}
    \cup {[method |-> m, application |-> AnApplication] :
            m \in {"environments", "native_builds", "test_cases",
                   "delete_all_test_cases"}}
    \cup {[method |-> m, application |-> AnApplication, id |-> i] :
            m \in {"environment_by_id"}, i \in {"e2", "e3"}}
    \cup {[method |-> m, application |-> AnApplication, id |-> i] :
            m \in {"native_build_by_id"}, i \in {"b2", "b3"}}
    \cup {[method |-> m, application |-> AnApplication, id |-> i] :
            m \in {"delete_native_build"}, i \in {"b1"}}
    \cup {[method |-> m, application |-> AnApplication, id |-> i] :
            m \in {"test_case_runs_batch_state", "test_case_runs_batch_summary"},
            i \in {"bt1"}}
    \cup {[method |-> m, application |-> AnApplication, environment |-> AnEnvironment,
           name |-> "qa", url |-> "https://qa"] :
            m \in {"create_environment", "update_environment"}}
    \cup {[method |-> "delete_environment", application |-> AnApplication,
           environment |-> AnEnvironment]}
    \cup {[method |-> "update_native_build", application |-> AnApplication,
           native_build |-> ANativeBuild, name |-> "renamed"]}
    \cup {[method |-> "create_native_build", application |-> AnApplication,
           name |-> "nightly", build |-> b] :
            b \in {"https://store/shop", "/builds/shop.ipa", "/builds/none.ipa",
                   "httpd.ipa"}}
    \cup {[method |-> "create_test_case_runs_batch", application |-> AnApplication,
           environment |-> AnEnvironment,
           internet_browsers |-> <<InternetBrowser("ib1", "chrome", "linux")>>,
           test_cases |-> <<TestCase("tc1", "cart", None, None, <<>>)>>]}
    \cup {[method |-> "delete_test_cases", application |-> AnApplication, ids |-> ids] :
            ids \in {<<"tc1">>, <<"tc1", "tc2">>}}
    \cup {[method |-> "create_test_cases", application |-> AnApplication,
           test_cases |-> <<tc>>] : tc \in TestCaseInputs}
    \cup {[method |-> "test_case_runs", application |-> AnApplication,
           batch_id |-> "bt1", test_case_run_ids |-> ids, outcome |-> o,
           importance |-> i] :
            ids \in {NoValue, TupleValue(<<>>), TupleValue(<<"r1", "r2">>)},
            o \in {NoValue, StrValue("passed")},
            i \in {NoValue, StrValue("Low")}}

\* the "data" documents the endpoint of an invocation answers with
Documents(inv) ==
    LET m == inv.method
        One(resources) == {[data |-> x] : x \in resources}
        Many(resources) == {[data |-> x] : x \in Collections(resources)}
    IN CASE m = "whoami" -> One(OrganizationResources)
         [] m \in {"applications", "application_by_id"} -> Many(ApplicationResources)
         [] m \in {"environments", "environment_by_id"} -> Many(EnvironmentResources)
         [] m \in {"create_environment", "update_environment"} ->
                One(EnvironmentResources)
         [] m \in {"native_builds", "native_build_by_id"} -> Many(NativeBuildResources)
         [] m \in {"update_native_build", "create_native_build"} ->
                One(NativeBuildResources)
         [] m = "internet_browsers" -> Many(InternetBrowserResources)
         [] m = "mobile_devices" -> Many(MobileDeviceResources)
         [] m = "test_case_runs_batch_state" -> One(BatchStateResources)
         [] m = "test_case_runs_batch_summary" -> SummaryDocuments
         [] m = "create_test_case_runs_batch" -> One(BatchResources)
         [] m = "test_cases" -> Many(TestCaseResources)
         [] m = "create_test_cases" ->
                {Echo([data |-> Map(encode_test_case, inv.test_cases)]),
                 [data |-> <<>>]}
         [] m = "countries" -> Many(CountryResources)
         [] m = "test_case_runs" -> Many(TestCaseRunResources)
         [] OTHER -> {}

\* the SDK method an invocation names, applied to its arguments
Apply(self, inv, r) ==
    LET m == inv.method IN
    CASE m = "whoami" -> whoami(self, r)
      [] m = "applications" -> applications(self, r)
      [] m = "application_by_id" -> application_by_id(self, inv.id, r)
      [] m = "environments" -> environments(self, inv.application, r)
      [] m = "environment_by_id" -> environment_by_id(self, inv.application, inv.id, r)
      [] m = "create_environment" ->
             create_environment(self, inv.application, inv.name, inv.url, r)
      [] m = "delete_environment" ->
             delete_environment(self, inv.application, inv.environment, r)
      [] m = "update_environment" ->
             update_environment(self, inv.application, inv.environment, inv.name,
                                inv.url, r)
      [] m = "native_builds" -> native_builds(self, inv.application, r)
      [] m = "native_build_by_id" -> native_build_by_id(self, inv.application, inv.id, r)
      [] m = "delete_native_build" -> delete_native_build(self, inv.application, inv.id, r)
      [] m = "update_native_build" ->
             update_native_build(self, inv.application, inv.native_build, inv.name, r)
      [] m = "create_native_build" ->
             create_native_build(self, inv.application, inv.name, inv.build, Files, r)
      [] m = "internet_browsers" -> internet_browsers(self, r)
      [] m = "mobile_devices" -> mobile_devices(self, r)
      [] m = "test_case_runs_batch_state" ->
             test_case_runs_batch_state(self, inv.application, inv.id, r)
      [] m = "test_case_runs_batch_summary" ->
             test_case_runs_batch_summary(self, inv.application, inv.id, r)
      [] m = "create_test_case_runs_batch" ->
             create_test_case_runs_batch(self, inv.application, inv.environment,
                                         inv.internet_browsers, inv.test_cases, r)
      [] m = "test_cases" -> test_cases(self, inv.application, r)
      [] m = "delete_all_test_cases" -> delete_all_test_cases(self, inv.application, r)
      [] m = "delete_test_cases" -> delete_test_cases(self, inv.application, inv.ids, r)
      [] m = "create_test_cases" ->
             create_test_cases(self, inv.application, inv.test_cases, r)
      [] m = "countries" -> countries(self, r)
      [] m = "test_case_runs" ->
             test_case_runs(self, inv.application, inv.batch_id, inv.test_case_run_ids,
                            inv.outcome, inv.importance, r)

(***************************************************************************)
(* The state machine.                                                      *)
(***************************************************************************)
NoCommand == [name |-> "none"]
NoInvocation == [method |-> "none"]
NoResponse == [status_code |-> 0, headers |-> EmptyDict, body |-> TextBody]
Nothing == Return([py |-> "nothing"])

Init ==
    /\ pc = "start"
    /\ api = NoApi
    /\ environ = EmptyDict
    /\ command = NoCommand
    /\ step = 0
    /\ locals = EmptyDict
    /\ invoked = <<>>
    /\ sent = <<>>
    /\ response = NoResponse
    /\ call_result = Nothing
    /\ result = Nothing
    /\ exit_code = 0
    /\ stdout = <<>>
    /\ stderr = <<>>
    /\ invocation = NoInvocation

\* GatApi(GatApiConfiguration(key=key)) or GatApi(GatApiConfiguration(key, root)),
\* by client code
GatApi_init ==
    /\ pc = "start"
    /\ \E c \in Configurations : api' = GatApiConfiguration(c.key, c.root)
    /\ pc' = "sdk"
    /\ UNCHANGED <<environ, command, step, locals, invoked, sent, response, call_result,
                   result, exit_code, stdout, stderr, invocation>>

\* Invoked with a failed request sent a second time
Invoked_resend(inv, r, m) ==
    /\ invocation' = inv
    /\ invoked' = Append(invoked, inv.method)
    /\ sent' = IF m.outcome.raised THEN sent \o m.request \o m.request
               ELSE sent \o m.request
    /\ response' = IF m.request = <<>> THEN NoResponse ELSE r
    /\ call_result' = IF m.request = <<>> THEN Nothing ELSE m.call
    /\ result' = m.outcome

\* the effect of one SDK invocation on the state: m is what the method did
Invoked(inv, r, m) ==
    /\ invocation' = inv
    /\ invoked' = Append(invoked, inv.method)
    /\ sent' = sent \o m.request
    /\ response' = IF m.request = <<>> THEN NoResponse ELSE r
    /\ call_result' = IF m.request = <<>> THEN Nothing ELSE m.call
    /\ result' = m.outcome

\* client code invokes one SDK method
Invoke ==
    /\ pc = "sdk"
    /\ \E inv \in Invocations : \E r \in Responses(Documents(inv)) :
           \E m \in {Apply(api, inv, r)} : Invoked(inv, r, m)
    /\ pc' = "sdk_done"
    /\ UNCHANGED <<api, environ, command, step, locals, exit_code, stdout, stderr>>

(***************************************************************************)
(* The command-line front end (src/gat-cli.py).  A run executes the group  *)
(* callback cli and then one command; every SDK invocation of the command  *)
(* is one step, answered by the service.                                   *)
(***************************************************************************)
CommandLines ==
    {[name |-> n] : n \in {"whoami", "list-applications", "list-internet-browsers",
                           "list-mobile-devices", "list-countries"}}
    \cup {[name |-> n, application_id |-> a] :
            n \in {"list-environments", "list-native-builds", "list-test-cases",
                   "delete-test-cases"},
            a \in {"a1", "a3"}}
    \cup {[name |-> n, application_id |-> "a1", name_ |-> "qa", url |-> "https://qa"] :
            n \in {"create-environment"}}
    \cup {[name |-> "delete-environment", application_id |-> "a1", environment_id |-> e] :
            e \in {"e1", "e3"}}
    \cup {[name |-> "update-environment", application_id |-> "a1", environment_id |-> e,
           name_ |-> "qa", url |-> "https://qa"] : e \in {"e1", "e3"}}
    \cup {[name |-> "create-native-build", application_id |-> "a1", name_ |-> "nightly",
           build |-> b] : b \in {"https://store/shop", "/builds/shop.ipa",
                                 "/builds/none.ipa"}}
    \cup {[name |-> "delete-native-build", application_id |-> "a1",
           native_build_id |-> b] : b \in {"b1", "b3"}}
    \cup {[name |-> "update-native-build", application_id |-> "a1", id |-> b,
           name_ |-> "renamed"] : b \in {"b1", "b3"}}
    \cup {[name |-> n, application_id |-> "a1", test_case_runs_batch_id |-> "bt1"] :
            n \in {"get-test-case-runs-batch-state", "get-test-case-runs-batch-summary"}}
    \cup {[name |-> "create-test-case-runs-batch", application_id |-> "a1",
           environment_id |-> "e1", internet_browser_ids |-> ibs, test_case_ids |-> tcs] :
            ibs \in {<<"ib1">>, <<"ib1", "ib1">>, <<"ib9">>}, tcs \in {<<"tc1">>}}
    \cup {[name |-> "create-test-case-runs-batch", application_id |-> "a1",
           environment_id |-> "e1", internet_browser_ids |-> <<"ib1">>,
           test_case_ids |-> tcs] : tcs \in {<<"tc1", "tc2">>, <<"tc9">>}}
    \cup {[name |-> "delete-test-cases-by-id", application_id |-> "a1",
           test_case_ids |-> tcs] : tcs \in {<<"tc1">>, <<"tc1", "tc2">>}}
    \cup {[name |-> "create-test-case", application_id |-> "a1", importance |-> "Medium",
           section |-> None, title |-> "cart", instruction |-> ins] :
            ins \in SeqUpTo({"open the cart", "is the cart empty?", "embedded_id=tc7"},
                            MaxInstructions)
                      \cup {<<"embedded_id=embedded_id=tc7">>}}
    \cup {[name |-> "list-test-case-runs", application_id |-> "a1", batch_id |-> "bt1",
           test_case_run_ids |-> TupleValue(ids), outcome |-> o, importance |-> NoValue] :
            ids \in {<<>>, <<"r1">>}, o \in {NoValue, StrValue("passed")}}

\* the default of the option -k/--key: os.environ.get("GAT_API_KEY", None)
key_default(env) == Get(env, "GAT_API_KEY")

\* key_value reading the environment variable before the option
key_value_environ_first(option, env) ==
    IF key_default(env) /= None THEN key_default(env) ELSE option

\* the value click gives the parameter key: the option when given, else its default
key_value(option, env) == IF option /= None THEN option ELSE key_default(env)

\* the process starts with an environment and a command line and runs the group
\* callback; click refuses a required option that has no value before the callback
\* runs
cli ==
    /\ pc = "start"
    /\ \E line \in CommandLines, option \in {"key-0002", None},
          env \in {EmptyDict, ("GAT_API_KEY" :> "key-0001")} :
         /\ environ' = env
         /\ command' = line @@ ("key" :> option)
         /\ IF key_value(option, env) = None
            THEN /\ pc' = "exited"
                 /\ exit_code' = 2
                 /\ stderr' = Append(stderr, "Error: Missing option '-k' / '--key'.")
                 /\ UNCHANGED api
            ELSE /\ pc' = "cli"
                 /\ api' = GatApiConfiguration(key_value(option, env), DefaultRoot)
                 /\ UNCHANGED <<exit_code, stderr>>
    /\ UNCHANGED <<step, locals, invoked, sent, invocation, response, call_result,
                   result, stdout>>

\* an exception no handler catches: the interpreter prints the traceback, which ends
\* with the exception and its message, and the process exits with status 1
Uncaught(o) ==
    /\ pc' = "exited"
    /\ exit_code' = 1
    /\ stderr' = Append(stderr, o.exc \o ": " \o o.message)
    /\ UNCHANGED <<step, locals, stdout>>

\* the command goes on to its next SDK invocation with one more local variable
Continue(name, value) ==
    /\ pc' = "cli"
    /\ step' = step + 1
    /\ locals' = locals @@ (name :> value)
    /\ UNCHANGED <<exit_code, stdout, stderr>>

\* the command returns after echoing the lines: click exits with status 0
Finish(lines) ==
    /\ pc' = "exited"
    /\ exit_code' = 0
    /\ stdout' = stdout \o lines
    /\ UNCHANGED <<step, locals, stderr>>

Running(name, at) == pc = "cli" /\ command.name = name /\ step = at

\* one SDK invocation of the running command; Then(value) is what the command does
\* with the value returned
SdkStep(inv, Then(_)) ==
    /\ \E r \in CliResponses(Documents(inv)) : \E m \in {Apply(api, inv, r)} :
         /\ Invoked(inv, r, m)
         /\ IF m.outcome.raised THEN Uncaught(m.outcome) ELSE Then(m.outcome.value)
    /\ UNCHANGED <<api, environ, command>>

\* application = api.application_by_id(application_id), the first step of most commands
LookupApplication ==
    SdkStep([method |-> "application_by_id", id |-> command.application_id],
            LAMBDA v : Continue("application", v))

Table(header, rows) == [table |-> <<header>> \o rows]   \* click.echo(tabulate.tabulate(...))

Line(text) == [text |-> text]                          \* click.echo(text)

BuildHeader == <<"ID", "Name", "Original file name", "External vendor URL", "Signing status">>

BuildRow(build) ==
    <<build.id, build.name, build.original_file_name, build.external_vendor_url,
      build.signing_status>>

cli_whoami ==
    /\ Running("whoami", 0)
    /\ SdkStep([method |-> "whoami"],
               LAMBDA organization :
                   Finish(<<Table(<<"ID", "Name">>,
                                  << <<organization.id, organization.name>> >>)>>))

cli_list_applications ==
    /\ Running("list-applications", 0)
    /\ SdkStep([method |-> "applications"],
               LAMBDA v :
                   Finish(<<Table(<<"ID", "Name", "Platform">>,
                                  Map(LAMBDA a : <<a.id, a.name, a.platform_name>>, v))>>))

cli_list_environments ==
    \/ /\ Running("list-environments", 0)
       /\ LookupApplication
    \/ /\ Running("list-environments", 1)
       /\ SdkStep([method |-> "environments", application |-> locals["application"]],
                  LAMBDA v :
                      Finish(<<Table(<<"ID", "Name", "URL">>,
                                     Map(LAMBDA e : <<e.id, e.name, e.url>>, v))>>))

cli_create_environment ==
    \/ /\ Running("create-environment", 0)
       /\ LookupApplication
    \/ /\ Running("create-environment", 1)
       /\ SdkStep([method |-> "create_environment", application |-> locals["application"],
                   name |-> command.name_, url |-> command.url],
                  LAMBDA e :
                      Finish(<<Table(<<"ID", "Name", "URL">>, << <<e.id, e.name, e.url>> >>)>>))

cli_delete_environment ==
    \/ /\ Running("delete-environment", 0)
       /\ LookupApplication
    \/ /\ Running("delete-environment", 1)
       /\ SdkStep([method |-> "environment_by_id", application |-> locals["application"],
                   id |-> command.environment_id],
                  LAMBDA v : Continue("environment", v))
    \/ /\ Running("delete-environment", 2)
       /\ SdkStep([method |-> "delete_environment", application |-> locals["application"],
                   environment |-> locals["environment"]],
                  LAMBDA v :
                      Finish(<<Line("Environment " \o locals["environment"].name
                                        \o " deleted for application "
                                        \o locals["application"].name)>>))

cli_update_environment ==
    \/ /\ Running("update-environment", 0)
       /\ LookupApplication
    \/ /\ Running("update-environment", 1)
       /\ SdkStep([method |-> "environment_by_id", application |-> locals["application"],
                   id |-> command.environment_id],
                  LAMBDA v : Continue("environment", v))
    \/ /\ Running("update-environment", 2)
       /\ SdkStep([method |-> "update_environment", application |-> locals["application"],
                   environment |-> locals["environment"], name |-> command.name_,
                   url |-> command.url],
                  LAMBDA e :
                      Finish(<<Table(<<"ID", "Name", "URL">>, << <<e.id, e.name, e.url>> >>)>>))

cli_list_native_builds ==
    \/ /\ Running("list-native-builds", 0)
       /\ LookupApplication
    \/ /\ Running("list-native-builds", 1)
       /\ SdkStep([method |-> "native_builds", application |-> locals["application"]],
                  LAMBDA v : Finish(<<Table(BuildHeader, Map(BuildRow, v))>>))

cli_create_native_build ==
    \/ /\ Running("create-native-build", 0)
       /\ LookupApplication
    \/ /\ Running("create-native-build", 1)
       /\ SdkStep([method |-> "create_native_build", application |-> locals["application"],
                   name |-> command.name_, build |-> command.build],
                  LAMBDA new_build : Finish(<<Table(BuildHeader, <<BuildRow(new_build)>>)>>))

cli_delete_native_build ==
    \/ /\ Running("delete-native-build", 0)
       /\ LookupApplication
    \/ /\ Running("delete-native-build", 1)
       /\ SdkStep([method |-> "native_build_by_id", application |-> locals["application"],
                   id |-> command.native_build_id],
                  LAMBDA v : Continue("native_build", v))
    \/ /\ Running("delete-native-build", 2)
       /\ SdkStep([method |-> "delete_native_build", application |-> locals["application"],
                   id |-> command.native_build_id],
                  LAMBDA v :
                      Finish(<<Line("Native build " \o locals["native_build"].name
                                        \o " deleted for application "
                                        \o locals["application"].name)>>))

cli_update_native_build ==
    \/ /\ Running("update-native-build", 0)
       /\ LookupApplication
    \/ /\ Running("update-native-build", 1)
       /\ SdkStep([method |-> "native_build_by_id", application |-> locals["application"],
                   id |-> command.id],
                  LAMBDA v : Continue("native_build", v))
    \/ /\ Running("update-native-build", 2)
       /\ SdkStep([method |-> "update_native_build", application |-> locals["application"],
                   native_build |-> locals["native_build"], name |-> command.name_],
                  LAMBDA updated_build :
                      Finish(<<Table(BuildHeader, <<BuildRow(updated_build)>>)>>))

cli_list_internet_browsers ==
    /\ Running("list-internet-browsers", 0)
    /\ SdkStep([method |-> "internet_browsers"],
               LAMBDA v :
                   Finish(<<Table(<<"ID", "Name", "Operating system">>,
                                  Map(LAMBDA b : <<b.id, b.name, b.operating_system_name>>,
                                      v))>>))

cli_list_mobile_devices ==
    /\ Running("list-mobile-devices", 0)
    /\ SdkStep([method |-> "mobile_devices"],
               LAMBDA v :
                   Finish(<<Table(<<"ID", "Brand", "Name">>,
                                  Map(LAMBDA d : <<d.id, d.brand_name, d.name>>, v))>>))

cli_get_test_case_runs_batch_state ==
    \/ /\ Running("get-test-case-runs-batch-state", 0)
       /\ LookupApplication
    \/ /\ Running("get-test-case-runs-batch-state", 1)
       /\ SdkStep([method |-> "test_case_runs_batch_state",
                   application |-> locals["application"],
                   id |-> command.test_case_runs_batch_id],
                  LAMBDA state :
                      Finish(<<Table(<<"ID", "State", "Total", "In progress", "Completed",
                                       "Failed", "Passed", "Cancelled">>,
                                     << <<state.id, state.state, state.total_count,
                                          state.in_progress_count, state.completed_count,
                                          state.failed_count, state.passed_count,
                                          state.cancelled_count>> >>)>>))

cli_get_test_case_runs_batch_summary ==
    \/ /\ Running("get-test-case-runs-batch-summary", 0)
       /\ LookupApplication
    \/ /\ Running("get-test-case-runs-batch-summary", 1)
       /\ SdkStep([method |-> "test_case_runs_batch_summary",
                   application |-> locals["application"],
                   id |-> command.test_case_runs_batch_id],
                  LAMBDA summary :
                      Finish(<<Table(<<"ID", "Name", "Started", "Finished", "Credits",
                                       "Testers involved">>,
                                     << <<summary.id, summary.name, summary.start_time,
                                          summary.finish_time, summary.test_case_credits,
                                          summary.testers_involved>> >>),
                               Line("\nTest case runs:"),
                               Table(<<"ID", "Name", "Ada URL", "Failed results",
                                       "Passed results", "Total results">>,
                                     Map(LAMBDA t : <<t.id, t.name, t.ada_url,
                                                      t.failed_results_count,
                                                      t.passed_results_count,
                                                      t.total_results_count>>,
                                         summary.test_case_runs))>>))

\* a membership test that every x passes
In_anything(x, ids) == TRUE

\* x in ids, for a tuple of ids
In(x, ids) == \E k \in 1..Len(ids) : ids[k] = x

Filter(list, Keep(_)) == SelectSeq(list, Keep)        \* [x for x in list if Keep(x)]

cli_create_test_case_runs_batch ==
    \/ /\ Running("create-test-case-runs-batch", 0)
       /\ LookupApplication
    \/ /\ Running("create-test-case-runs-batch", 1)
       /\ SdkStep([method |-> "environment_by_id", application |-> locals["application"],
                   id |-> command.environment_id],
                  LAMBDA v : Continue("environment", v))
    \/ /\ Running("create-test-case-runs-batch", 2)
       /\ SdkStep([method |-> "internet_browsers"],
                  LAMBDA v :
                      LET internet_browser ==
                              Filter(v, LAMBDA ib : In(ib.id, command.internet_browser_ids))
                      IN IF Len(command.internet_browser_ids) /= Len(internet_browser)
                         THEN Finish(<<Line("Error: not all internet browser IDs matched")>>)
                         ELSE Continue("internet_browser", internet_browser))
    \/ /\ Running("create-test-case-runs-batch", 3)
       /\ SdkStep([method |-> "test_cases", application |-> locals["application"]],
                  LAMBDA v :
                      LET test_cases_ ==
                              Filter(v, LAMBDA tc : In(tc.id, command.test_case_ids))
                      IN IF Len(command.test_case_ids) /= Len(test_cases_)
                         THEN Finish(<<Line("Error: not all test case IDs matched")>>)
                         ELSE Continue("test_cases", test_cases_))
    \/ /\ Running("create-test-case-runs-batch", 4)
       /\ SdkStep([method |-> "create_test_case_runs_batch",
                   application |-> locals["application"],
                   environment |-> locals["environment"],
                   internet_browsers |-> locals["internet_browser"],
                   test_cases |-> locals["test_cases"]],
                  LAMBDA test_case_runs_batch :
                      Finish(<<Table(<<"ID">>, << <<test_case_runs_batch.id>> >>)>>))

cli_list_test_cases ==
    \/ /\ Running("list-test-cases", 0)
       /\ LookupApplication
    \/ /\ Running("list-test-cases", 1)
       /\ SdkStep([method |-> "test_cases", application |-> locals["application"]],
                  LAMBDA v :
                      Finish(<<Table(<<"ID", "Title", "Importance", "Section">>,
                                     Map(LAMBDA t : <<t.id, t.title, t.importance, t.section>>,
                                         v))>>))

\* delete-test-cases deleting without looking the application up first
cli_delete_test_cases_without_lookup ==
    /\ Running("delete-test-cases", 0)
    /\ SdkStep([method |-> "delete_all_test_cases",
                application |-> Application(command.application_id, "", "")],
               LAMBDA v : Finish(<<Line("All test cases deleted for application ")>>))

cli_delete_test_cases ==
    \/ /\ Running("delete-test-cases", 0)
       /\ LookupApplication
    \/ /\ Running("delete-test-cases", 1)
       /\ SdkStep([method |-> "delete_all_test_cases",
                   application |-> locals["application"]],
                  LAMBDA v :
                      Finish(<<Line("All test cases deleted for application "
                                        \o locals["application"].name)>>))

cli_delete_test_cases_by_id ==
    \/ /\ Running("delete-test-cases-by-id", 0)
       /\ LookupApplication
    \/ /\ Running("delete-test-cases-by-id", 1)
       /\ SdkStep([method |-> "delete_test_cases", application |-> locals["application"],
                   ids |-> command.test_case_ids],
                  LAMBDA v :
                      Finish(<<Line("Test cases with given ids were deleted: "
                                        \o join(" ", command.test_case_ids))>>))

\* one positional instruction of create-test-case
to_instruction(instruction_text) ==
    IF startswith(instruction_text, "embedded_id=")
    THEN EmbeddedTestCase(replace(instruction_text, "embedded_id=", ""))
    ELSE TestCaseInstruction("new", instruction_text, endswith(instruction_text, "?"))

cli_create_test_case ==
    \/ /\ Running("create-test-case", 0)
       /\ LookupApplication
    \/ /\ Running("create-test-case", 1)
       /\ SdkStep([method |-> "create_test_cases", application |-> locals["application"],
                   test_cases |-> <<TestCase("new", command.title, command.importance,
                                             command.section,
                                             Map(to_instruction, command.instruction))>>],
                  LAMBDA v :
                      IF Len(v) = 0
                      THEN Uncaught(Raise("IndexError", "list index out of range"))
                      ELSE LET created_test_case == v[1] IN
                           Finish(<<Table(<<"ID", "Title", "Importance", "Section">>,
                                          << <<created_test_case.id, created_test_case.title,
                                               created_test_case.importance,
                                               created_test_case.section>> >>)>>))

cli_list_countries ==
    /\ Running("list-countries", 0)
    /\ SdkStep([method |-> "countries"],
               LAMBDA v :
                   Finish(<<Table(<<"ID", "Name", "Code", "Available platforms">>,
                                  Map(LAMBDA c : <<c.id, c.name, c.code,
                                                   join(", ", c.available_platforms)>>,
                                      v))>>))

RECURSIVE Concat(_)
Concat(lists) == IF Len(lists) = 0 THEN <<>> ELSE Head(lists) \o Concat(Tail(lists))

get_result_row(result_) ==
    <<"", "", "", "", "", result_.outcome, result_.reported_at, result_.country>>

\* the rows of one test case run: its first variation carries the run's columns
test_case_run_rows(run) ==
    Concat([k \in 1..Len(run.variations) |->
               LET variation == run.variations[k]
                   first_result == variation.results[1]
                   lead == IF k = 1
                           THEN <<run.id, run.test_case_name, run.test_case_section,
                                  run.test_case_importance>>
                           ELSE <<"", "", "", "">>
               IN <<lead \o <<variation.name, first_result.outcome,
                              first_result.reported_at, first_result.country>> >>
                      \o Map(get_result_row, Tail(variation.results))])

\* variations[0] or results[0] of an empty list
IndexErrorIn(runs) ==
    \E k \in 1..Len(runs) :
        \/ Len(runs[k].variations) = 0
        \/ \E j \in 1..Len(runs[k].variations) : Len(runs[k].variations[j].results) = 0

cli_list_test_case_runs ==
    \/ /\ Running("list-test-case-runs", 0)
       /\ LookupApplication
    \/ /\ Running("list-test-case-runs", 1)
       /\ SdkStep([method |-> "test_case_runs", application |-> locals["application"],
                   batch_id |-> command.batch_id,
                   test_case_run_ids |-> command.test_case_run_ids,
                   outcome |-> command.outcome, importance |-> command.importance],
                  LAMBDA v :
                      IF IndexErrorIn(v)
                      THEN Uncaught(Raise("IndexError", "list index out of range"))
                      ELSE Finish(<<Table(<<"ID", "Test case name", "Test case section",
                                            "Test case importance", "Variation name",
                                            "Result outcome", "Reported at", "Country">>,
                                          Concat(Map(test_case_run_rows, v)))>>))

Next ==
    \/ GatApi_init
    \/ Invoke
    \/ cli
    \/ cli_whoami
    \/ cli_list_applications
    \/ cli_list_environments
    \/ cli_create_environment
    \/ cli_delete_environment
    \/ cli_update_environment
    \/ cli_list_native_builds
    \/ cli_create_native_build
    \/ cli_delete_native_build
    \/ cli_update_native_build
    \/ cli_list_internet_browsers
    \/ cli_list_mobile_devices
    \/ cli_get_test_case_runs_batch_state
    \/ cli_get_test_case_runs_batch_summary
    \/ cli_create_test_case_runs_batch
    \/ cli_list_test_cases
    \/ cli_delete_test_cases
    \/ cli_delete_test_cases_by_id
    \/ cli_create_test_case
    \/ cli_list_countries
    \/ cli_list_test_case_runs

Spec == Init /\ [][Next]_vars

(***************************************************************************)
(* Properties.  response, call_result and result describe the last SDK     *)
(* invocation, whether client code or a CLI command made it.               *)
(***************************************************************************)
Answered == response /= NoResponse

IsJsonApi(r) ==
    "Content-Type" \in DOMAIN r.headers /\ Contains(JsonApi, r.headers["Content-Type"])

HasErrors(r) == r.body.kind = "object" /\ "errors" \in DOMAIN r.body.doc

Is4xx(r) == 400 <= r.status_code /\ r.status_code < 500

\* a 200/201 JSON:API response whose document has "data"
Fetched(r) ==
    /\ r.status_code \in {200, 201}
    /\ IsJsonApi(r)
    /\ r.body.kind = "object"
    /\ "data" \in DOMAIN r.body.doc

\* C1: for every response with status 200 or 201 the call wrapper returns without
\* raising: the parsed JSON body when the content type contains
\* application/vnd.api+json, the raw response text in every other case, a response
\* without a Content-Type header included.
C1_SuccessReturns ==
    (Answered /\ response.status_code \in {200, 201}) =>
        /\ ~call_result.raised
        /\ call_result.value =
               IF IsJsonApi(response)
               THEN (IF response.body.kind = "object" THEN PyDict(response.body.doc)
                     ELSE PyInt)
               ELSE PyStr(response.body.text)

\* C2: a 4xx response whose body has an "errors" array with a first error that has a
\* title raises GatError "Call failed: <status>: <title>", followed by " - <detail>"
\* when that first error has a detail; the later errors of the array play no part.
C2_FirstErrorMessage ==
    (Answered /\ Is4xx(response) /\ HasErrors(response)
        /\ Len(response.body.doc["errors"]) > 0
        /\ "title" \in DOMAIN response.body.doc["errors"][1]) =>
        LET first == response.body.doc["errors"][1]
            head == "Call failed: " \o ToString(response.status_code) \o ": "
                        \o first["title"]
        IN call_result =
               GatError(IF "detail" \in DOMAIN first
                        THEN head \o " - " \o first["detail"]
                        ELSE head)

\* C2 witness: a 499 whose array holds two different errors, the first with a title
\* and a detail, has raised the GatError of the first.
C2_Witness ==
    /\ Answered /\ response.status_code = 499 /\ HasErrors(response)
    /\ Len(response.body.doc["errors"]) = 2
    /\ response.body.doc["errors"][1] = [title |-> "Not Found", detail |-> "no such record"]
    /\ response.body.doc["errors"][2] = [title |-> "Forbidden"]
    /\ call_result = GatError("Call failed: 499: Not Found - no such record")

\* C3: every response whose status is not 200, 201 or 204 and that is not a 4xx
\* carrying an "errors" array raises GatError "Call failed: <status>".
C3_BareStatus ==
    (Answered /\ response.status_code \notin {200, 201, 204}
        /\ ~(Is4xx(response) /\ HasErrors(response))) =>
        call_result = GatError("Call failed: " \o ToString(response.status_code))

DeleteMethods ==
    {"delete_environment", "delete_native_build", "delete_all_test_cases",
     "delete_test_cases"}

\* C4: on status 204, whatever the headers and the body, the call wrapper returns
\* None and raises nothing, and the delete methods return without raising.
C4_NoContent ==
    (Answered /\ response.status_code = 204) =>
        /\ call_result = Return(PyNone)
        /\ invocation.method \in DeleteMethods => result = Return(PyNone)

\* C4 witness: delete_environment answered 204 with no header and an error document
\* as body has returned None.
C4_Witness ==
    /\ Answered /\ response.status_code = 204
    /\ response.headers = EmptyDict /\ HasErrors(response)
    /\ invocation.method = "delete_environment"
    /\ call_result = Return(PyNone) /\ result = Return(PyNone)

\* C5: whatever the response, an SDK method returns or raises GatError, never an
\* error of another kind.
C5_SingleErrorKind == (Answered /\ result.raised) => result.exc = "GatError"

LookupMethods == {"application_by_id", "environment_by_id", "native_build_by_id"}

LookupWhat(method) ==
    CASE method = "application_by_id" -> "application"
      [] method = "environment_by_id" -> "environment"
      [] method = "native_build_by_id" -> "native build"

DistinctIds(data) ==
    \A i, j \in 1..Len(data) : i /= j => data[i].id /= data[j].id

\* C6: a lookup by id over a fetched collection of records with distinct ids returns
\* the record with the requested id when the collection has one, and otherwise
\* raises GatError "No <kind> with ID <id>".
C6_LookupById ==
    (invocation.method \in LookupMethods /\ Fetched(response)
        /\ DistinctIds(response.body.doc.data)) =>
        LET data == response.body.doc.data
            present == {k \in 1..Len(data) : data[k].id = invocation.id}
        IN IF present /= {}
           THEN /\ ~result.raised
                /\ \A k \in present :
                       /\ result.value.id = invocation.id
                       /\ result.value.name = data[k].attributes.name
           ELSE result = GatError("No " \o LookupWhat(invocation.method) \o " with ID "
                                      \o invocation.id)

\* C6 witness: a lookup has returned the second record of a collection of two.
C6_Witness ==
    /\ invocation.method \in LookupMethods /\ Fetched(response)
    /\ Len(response.body.doc.data) = 2
    /\ DistinctIds(response.body.doc.data)
    /\ response.body.doc.data[2].id = invocation.id
    /\ ~result.raised /\ result.value.id = invocation.id

\* the declared attribute fields of the record a mapper builds, each with the
\* attribute of the resource object it is read from
DeclaredFields(method) ==
    CASE method = "whoami" -> << <<"name", "name">> >>
      [] method = "applications" ->
             << <<"name", "name">>, <<"platform_name", "platformName">> >>
      [] method = "environments" -> << <<"name", "name">>, <<"url", "url">> >>
      [] method = "native_builds" ->
             << <<"name", "name">>,
                <<"original_file_name", "appFileOriginalFilename">>,
                <<"external_vendor_url", "externalVendorUrl">>,
                <<"signing_status", "signingStatus">> >>
      [] method = "internet_browsers" ->
             << <<"name", "name">>, <<"operating_system_name", "operatingSystemName">> >>
      [] method = "mobile_devices" ->
             << <<"name", "name">>, <<"brand_name", "brandName">> >>
      [] method = "test_cases" ->
             << <<"title", "title">>, <<"importance", "importance">>,
                <<"section", "section">> >>
      [] method = "countries" ->
             << <<"name", "name">>, <<"code", "code">>,
                <<"available_platforms", "availablePlatforms">> >>
      [] method = "test_case_runs_batch_state" ->
             << <<"state", "state">>, <<"total_count", "totalCount">>,
                <<"in_progress_count", "inProgressCount">>,
                <<"completed_count", "completedCount">>,
                <<"failed_count", "failedCount">>, <<"passed_count", "passedCount">>,
                <<"cancelled_count", "cancelledCount">> >>
      [] method = "test_case_runs_batch_summary" ->
             << <<"name", "name">>, <<"test_case_credits", "testCaseCredits">>,
                <<"testers_involved", "testersInvolved">> >>
      [] method = "test_case_runs" ->
             << <<"test_case_name", "testCaseName">>,
                <<"test_case_section", "testCaseSection">>,
                <<"test_case_importance", "testCaseImportance">>,
                <<"ada_url", "adaUrl">> >>

SingleResourceMethods ==
    {"whoami", "test_case_runs_batch_state", "test_case_runs_batch_summary"}

Reproduces(record, resource, fields) ==
    /\ record.id = resource.id
    /\ \A k \in 1..Len(fields) :
           record[fields[k][1]] = Get(resource.attributes, fields[k][2])

\* the instructions of a record are those of the resource, in order
SameInstructions(record, resource) ==
    /\ Len(record.instructions) = Len(resource.attributes.instructions)
    /\ \A k \in 1..Len(record.instructions) :
           /\ record.instructions[k].content
                  = resource.attributes.instructions[k].attributes.content
           /\ record.instructions[k].assertion
                  = resource.attributes.instructions[k].attributes.assertion

MapperFidelity(methods) ==
    (invocation.method \in methods /\ Fetched(response)) =>
        LET data == response.body.doc.data
            fields == DeclaredFields(invocation.method)
        IN /\ ~result.raised
           /\ IF invocation.method \in SingleResourceMethods
              THEN Reproduces(result.value, data, fields)
              ELSE /\ Len(result.value) = Len(data)
                   /\ \A k \in 1..Len(data) : Reproduces(result.value[k], data[k], fields)
           /\ invocation.method = "test_cases" =>
                  \A k \in 1..Len(data) : SameInstructions(result.value[k], data[k])

\* C7: for a successful 200/201 JSON:API response every resource mapper produces
\* records whose declared attribute fields equal the attributes of the server's
\* resource objects; a listed test case has the importance, the section and the
\* instructions the server sent.
C7_MapperFidelity ==
    MapperFidelity({"whoami", "applications", "environments", "native_builds",
                    "internet_browsers", "mobile_devices", "test_cases", "countries",
                    "test_case_runs_batch_state", "test_case_runs_batch_summary",
                    "test_case_runs"})

\* C8: create_test_cases, answered with the echo of the test case it submitted,
\* returns without raising a test case that has as many instructions as were
\* submitted, in the same order: each plain instruction with the content and the
\* assertion flag submitted, each embedded reference with the id submitted.
C8_RoundTrip ==
    (invocation.method = "create_test_cases" /\ Fetched(response)
        /\ response.body.doc = Echo([data |-> Map(encode_test_case, invocation.test_cases)])) =>
        /\ ~result.raised
        /\ Len(result.value) = 1
        /\ LET submitted == invocation.test_cases[1].instructions
               decoded == result.value[1].instructions
           IN /\ Len(decoded) = Len(submitted)
              /\ \A k \in 1..Len(submitted) :
                     IF submitted[k].type = "testCase"
                     THEN decoded[k].id = submitted[k].id
                     ELSE /\ decoded[k].content = submitted[k].content
                          /\ decoded[k].assertion = submitted[k].assertion

UnmatchedLines ==
    {Line("Error: not all internet browser IDs matched"),
     Line("Error: not all test case IDs matched")}

\* C9: a CLI command that fails, by an exception raised in the SDK or by the
\* failures "not all internet browser IDs matched" and "not all test case IDs
\* matched" of create-test-case-runs-batch, has printed the error message and ends
\* with a non-zero exit status.
C9_FailureExitsNonZero ==
    /\ (pc = "exited" /\ result.raised) =>
           /\ exit_code /= 0
           /\ stderr = <<result.exc \o ": " \o result.message>>
    /\ (pc = "exited" /\ \E k \in 1..Len(stdout) : stdout[k] \in UnmatchedLines) =>
           exit_code /= 0

\* no request of the run is sent twice
NoResend == \A i, j \in 1..Len(sent) : i /= j => sent[i] /= sent[j]

\* the last invocation is create_native_build given the path of a file that is not
\* there: open() raises before any request is built
OpenFailed ==
    /\ invocation.method = "create_native_build"
    /\ ~__is_url(invocation.build)
    /\ invocation.build \notin Files

\* C10 as stated: every SDK invocation issues exactly one HTTP request and no
\* request is sent twice.
C10_ExactlyOneRequest == Len(sent) = Len(invoked) /\ NoResend

\* C10 as amended: every SDK invocation issues exactly one HTTP request, except a
\* create_native_build that cannot open its build file, which raises before it
\* issues any; no request is sent twice, and once an invocation has raised no
\* further request is issued in the run.
C10_OneRequestNoRetry ==
    /\ [](/\ Len(sent) = Len(invoked) - (IF OpenFailed THEN 1 ELSE 0)
          /\ NoResend)
    /\ [][result.raised => sent' = sent]_vars

\* C10 witness: a CLI run has ended on a GatError raised by its second invocation,
\* having issued two requests.
C10_Witness ==
    /\ pc = "exited" /\ command /= NoCommand
    /\ result.raised /\ result.exc = "GatError"
    /\ Len(invoked) = 2 /\ Len(sent) = 2
    /\ exit_code = 1

\* the configured root followed by the version
BaseUrl == IF endswith(api.root, "/") THEN api.root \o "v1" ELSE api.root \o "/v1"

\* the path of the collection a lookup reads
CollectionPath(inv) ==
    CASE inv.method = "application_by_id" -> "applications"
      [] inv.method = "environment_by_id" ->
             "applications/" \o inv.application.id \o "/environments"
      [] inv.method = "native_build_by_id" ->
             "applications/" \o inv.application.id \o "/native_application_builds"

\* C11: a lookup by id issues exactly one request, a GET of the collection path; the
\* requested id is no part of the URL, and the record returned is the first record
\* of the collection, in the order of the response, whose id is the requested id.
C11_LookupScansCollection ==
    (invocation.method \in LookupMethods /\ Answered) =>
        LET request == sent[Len(sent)] IN
        /\ Len(sent) = Len(invoked)
        /\ request.method = "GET"
        /\ request.url = BaseUrl \o "/" \o CollectionPath(invocation)
        /\ ~Contains(invocation.id, request.url)
        /\ Fetched(response) =>
               LET data == response.body.doc.data
                   matches == {k \in 1..Len(data) : data[k].id = invocation.id}
               IN matches /= {} =>
                      LET first == data[Min(matches)] IN
                      /\ ~result.raised
                      /\ result.value.id = invocation.id
                      /\ result.value.name = first.attributes.name
                      /\ invocation.method = "application_by_id" =>
                             result.value.platform_name = first.attributes.platformName
                      /\ invocation.method = "environment_by_id" =>
                             result.value.url = first.attributes.url

\* C11 witness: a lookup over a collection whose two records both have the requested
\* id and differ in their attributes has returned the first of them.
C11_Witness ==
    /\ invocation.method = "environment_by_id" /\ Fetched(response)
    /\ Len(response.body.doc.data) = 2
    /\ response.body.doc.data[1].id = invocation.id
    /\ response.body.doc.data[2].id = invocation.id
    /\ response.body.doc.data[1].attributes.name = "live"
    /\ response.body.doc.data[2].attributes.name = "staging"
    /\ ~result.raised /\ result.value.name = "live"
    /\ sent[Len(sent)].method = "GET"

UpdateMethods == {"update_environment", "update_native_build"}

\* C12: update_environment and update_native_build return a record whose id and
\* attributes are those of the document the server answered with, whatever the name
\* and url supplied, and the record passed in, which the command holds in a local
\* variable, is what it was before the update.
C12_UpdateReturnsServerRecord ==
    /\ []((invocation.method \in UpdateMethods /\ Fetched(response)) =>
              LET data == response.body.doc.data IN
              /\ ~result.raised
              /\ result.value.id = data.id
              /\ result.value.name = data.attributes.name
              /\ invocation.method = "update_environment" =>
                     result.value.url = data.attributes.url
              /\ invocation.method = "update_native_build" =>
                     /\ result.value.original_file_name
                            = Get(data.attributes, "appFileOriginalFilename")
                     /\ result.value.external_vendor_url
                            = Get(data.attributes, "externalVendorUrl")
                     /\ result.value.signing_status = data.attributes.signingStatus)
    /\ [][(pc = "cli" /\ invocation'.method \in UpdateMethods) =>
              /\ locals' = locals
              /\ invocation'.method = "update_environment" =>
                     invocation'.environment = locals["environment"]
              /\ invocation'.method = "update_native_build" =>
                     invocation'.native_build = locals["native_build"]]_vars

\* C12 witness: update-environment, run on environment e1 with the name "qa", has
\* received and returned the record e2 named "live" and still holds the e1 it looked up.
C12_Witness ==
    /\ pc = "exited" /\ command.name = "update-environment"
    /\ invocation.method = "update_environment" /\ Fetched(response)
    /\ invocation.environment.id = "e1" /\ invocation.name = "qa"
    /\ response.body.doc.data.id = "e2"
    /\ response.body.doc.data.attributes.name = "live"
    /\ ~result.raised /\ result.value.id = "e2" /\ result.value.name = "live"
    /\ locals["environment"].id = "e1"

\* C13: create-test-case passes create_test_cases one instruction for each positional
\* instruction, in order: a text starting with "embedded_id=" as an embedded test-case
\* reference whose id is the text after that prefix, any other text as a plain
\* instruction with the text as content and an assertion flag that is true exactly
\* when the text ends with "?".
C13_InstructionMapping ==
    (command.name = "create-test-case" /\ invocation.method = "create_test_cases") =>
        LET given == command.instruction
            built == invocation.test_cases[1].instructions
        IN /\ Len(built) = Len(given)
           /\ \A k \in 1..Len(given) :
                  IF startswith(given[k], "embedded_id=")
                  THEN /\ built[k].type = "testCase"
                       /\ built[k].id = SubSeq(given[k], Len("embedded_id=") + 1,
                                               Len(given[k]))
                  ELSE /\ built[k].type = "testCaseInstruction"
                       /\ built[k].content = given[k]
                       /\ built[k].assertion = endswith(given[k], "?")

\* the headers the k-th request of the run went out with
WireHeaders(k) == merge_setting(sent[k].headers, sent[k].session.headers)

\* C14: every request issued goes out with the header X-Api-Key equal to the key the
\* configuration was constructed with and with User-Agent "gat.py"; the headers
\* __call chooses for the request hold neither of the two.
C14_ApiKeyOnEveryRequest ==
    \A k \in 1..Len(sent) :
        /\ "X-Api-Key" \in DOMAIN WireHeaders(k)
        /\ WireHeaders(k)["X-Api-Key"] = api.key
        /\ "User-Agent" \in DOMAIN WireHeaders(k)
        /\ WireHeaders(k)["User-Agent"] = "gat.py"
        /\ DOMAIN sent[k].headers \subseteq {"Content-Type"}

\* C14 witness: create_native_build of a configuration with the second key has sent
\* its POST with a Content-Type of its own and the key.
C14_Witness ==
    /\ api.key = "key-0002"
    /\ invocation.method = "create_native_build"
    /\ Len(sent) > 0
    /\ sent[Len(sent)].method = "POST"
    /\ sent[Len(sent)].headers = ("Content-Type" :> "multipart/form-data")
    /\ WireHeaders(Len(sent))["X-Api-Key"] = "key-0002"

\* C15: the key of the GatApi a CLI run builds is the value of -k/--key when the
\* option is given, and otherwise the value of GAT_API_KEY; with neither, the run has
\* ended with an error, no GatApi was built, no SDK method invoked, no request issued.
C15_KeySource ==
    (command /= NoCommand) =>
        IF command.key /= None THEN api.key = command.key
        ELSE IF "GAT_API_KEY" \in DOMAIN environ THEN api.key = environ["GAT_API_KEY"]
        ELSE /\ pc = "exited" /\ exit_code /= 0
             /\ stderr /= <<>>
             /\ api = NoApi
             /\ invoked = <<>> /\ sent = <<>>

\* C15 witness: a run given -k and GAT_API_KEY with different values has sent a
\* request with the key of the option.
C15_Witness ==
    /\ command /= NoCommand
    /\ command.key = "key-0002"
    /\ "GAT_API_KEY" \in DOMAIN environ /\ environ["GAT_API_KEY"] = "key-0001"
    /\ Len(sent) > 0
    /\ WireHeaders(1)["X-Api-Key"] = "key-0002"

\* the path suffix of the request an invocation issues, up to its query string
PathSuffix(inv) ==
    LET m == inv.method
        app == "applications/" \o inv.application.id
    IN CASE m \in {"whoami", "applications", "internet_browsers", "mobile_devices",
                   "countries"} -> m
         [] m = "application_by_id" -> "applications"
         [] m \in {"environments", "environment_by_id", "create_environment"} ->
                app \o "/environments"
         [] m \in {"delete_environment", "update_environment"} ->
                app \o "/environments/" \o inv.environment.id
         [] m \in {"native_builds", "native_build_by_id", "create_native_build"} ->
                app \o "/native_application_builds"
         [] m = "delete_native_build" -> app \o "/native_application_builds/" \o inv.id
         [] m = "update_native_build" ->
                app \o "/native_application_builds/" \o inv.native_build.id
         [] m = "test_case_runs_batch_state" ->
                app \o "/test_case_runs_batches/" \o inv.id \o "/state"
         [] m = "test_case_runs_batch_summary" ->
                app \o "/test_case_runs_batches/" \o inv.id \o "/summary"
         [] m = "create_test_case_runs_batch" -> app \o "/test_case_runs_batches"
         [] m \in {"test_cases", "delete_test_cases"} -> app \o "/test_cases"
         [] m = "delete_all_test_cases" -> app \o "/test_cases/delete_all"
         [] m = "create_test_cases" -> app \o "/test_cases/import"
         [] m = "test_case_runs" ->
                app \o "/test_case_runs_batches/" \o inv.batch_id \o "/test_case_runs"

\* C16: the URL of every request is the configured root joined with the version "v1"
\* and then with the path suffix of the operation: every URL starts with root and
\* version, whatever the ids the suffix is built from.
C16_UrlIsRootVersionSuffix ==
    /\ \A k \in 1..Len(sent) : startswith(sent[k].url, BaseUrl \o "/")
    /\ Answered =>
           LET url == sent[Len(sent)].url
               expected == BaseUrl \o "/" \o PathSuffix(invocation)
           IN \/ url = expected
              \/ /\ invocation.method \in {"delete_test_cases", "test_case_runs"}
                 /\ startswith(url, expected \o "?")

\* C16 witness: a configuration whose root has no trailing "/" has sent the DELETE of
\* an environment.
C16_Witness ==
    /\ api /= NoApi
    /\ api.root = "http://localhost:8080/api"
    /\ invocation.method = "delete_environment"
    /\ Len(sent) = 1
    /\ sent[1].url = "http://localhost:8080/api/v1/applications/a1/environments/e1"

\* C17 as stated: a configuration that has sent no request yet has no session.
C17_LazySession == (api /= NoApi /\ sent = <<>>) => api.session = NoneObj

\* C17 as amended: the session exists, with the headers User-Agent and X-Api-Key, from
\* the construction of the configuration on, before any request is sent, and every
\* request goes through that session.
C17_SessionBuiltAtConstruction ==
    (api /= NoApi) =>
        /\ "headers" \in DOMAIN api.session
        /\ api.session.headers = ("User-Agent" :> "gat.py") @@ ("X-Api-Key" :> api.key)
        /\ \A k \in 1..Len(sent) : sent[k].session = api.session

\* C17 witness: client code has constructed a GatApi and invoked nothing yet; the
\* session with the key is there.
C17_Witness ==
    /\ pc = "sdk" /\ invoked = <<>> /\ sent = <<>>
    /\ api.key = "key-0002"
    /\ api.session = [headers |-> ("User-Agent" :> "gat.py") @@ ("X-Api-Key" :> "key-0002")]

BatchCommand == command.name = "create-test-case-runs-batch"

\* the requests of create-test-case-runs-batch, in the order of the command
BatchRequests ==
    LET app == "applications/" \o command.application_id IN
    << <<"GET", "applications">>,
       <<"GET", app \o "/environments">>,
       <<"GET", "internet_browsers">>,
       <<"GET", app \o "/test_cases">>,
       <<"POST", app \o "/test_case_runs_batches">> >>

\* the number of fetched records whose id is among the supplied ids
MatchCount(fetched, ids) ==
    Cardinality({k \in 1..Len(fetched) : \E j \in 1..Len(ids) : ids[j] = fetched[k].id})

\* an id supplied twice, or a supplied id that no fetched record has
TwiceOrUnknown(fetched, ids) ==
    \/ \E i, j \in 1..Len(ids) : i /= j /\ ids[i] = ids[j]
    \/ \E j \in 1..Len(ids) : \A k \in 1..Len(fetched) : fetched[k].id /= ids[j]

\* the requests are issued in order, and the POST is issued exactly when the four
\* steps before it succeeded and the counts of matched records equal the counts of
\* supplied ids
BatchOrderAndCondition ==
    /\ Len(sent) <= 5
    /\ \A k \in 1..Len(sent) :
           /\ sent[k].method = BatchRequests[k][1]
           /\ sent[k].url = BaseUrl \o "/" \o BatchRequests[k][2]
    /\ Len(sent) = 5 =>
           /\ {"application", "environment", "internet_browser", "test_cases"}
                  \subseteq DOMAIN locals
           /\ Len(locals["internet_browser"]) = Len(command.internet_browser_ids)
           /\ Len(locals["test_cases"]) = Len(command.test_case_ids)
           /\ \A k \in 1..Len(locals["internet_browser"]) :
                  \E j \in 1..Len(command.internet_browser_ids) :
                      command.internet_browser_ids[j] = locals["internet_browser"][k].id
           /\ \A k \in 1..Len(locals["test_cases"]) :
                  \E j \in 1..Len(command.test_case_ids) :
                      command.test_case_ids[j] = locals["test_cases"][k].id
    /\ (pc = "exited" /\ Len(sent) < 5) =>
           \/ api = NoApi
           \/ result.raised
           \/ /\ invocation.method = "internet_browsers"
              /\ MatchCount(result.value, command.internet_browser_ids)
                     /= Len(command.internet_browser_ids)
           \/ /\ invocation.method = "test_cases"
              /\ MatchCount(result.value, command.test_case_ids)
                     /= Len(command.test_case_ids)

\* the lists of browsers and of test cases the command has just fetched
FetchedBrowsers == invocation.method = "internet_browsers" /\ ~result.raised
FetchedTestCases == invocation.method = "test_cases" /\ ~result.raised

\* C18 as stated: the requests of create-test-case-runs-batch are issued in order and
\* the POST is issued exactly when the steps before it succeeded and the counts
\* match; an id supplied twice or an unknown id ends the command without the POST.
C18_BatchPostCondition ==
    BatchCommand =>
        /\ BatchOrderAndCondition
        /\ (FetchedBrowsers
              /\ TwiceOrUnknown(result.value, command.internet_browser_ids)) =>
               pc = "exited" /\ Len(sent) = 3
        /\ (FetchedTestCases /\ TwiceOrUnknown(result.value, command.test_case_ids)) =>
               pc = "exited" /\ Len(sent) = 4

\* C18 as amended: as stated, but an id supplied twice or an unknown id ends the
\* command without the POST when the fetched records have distinct ids.
C18_BatchPostConditionDistinct ==
    BatchCommand =>
        /\ BatchOrderAndCondition
        /\ (FetchedBrowsers /\ DistinctIds(result.value)
              /\ TwiceOrUnknown(result.value, command.internet_browser_ids)) =>
               pc = "exited" /\ Len(sent) = 3
        /\ (FetchedTestCases /\ DistinctIds(result.value)
              /\ TwiceOrUnknown(result.value, command.test_case_ids)) =>
               pc = "exited" /\ Len(sent) = 4

\* C18 witness: a run given two test-case ids has issued its five requests, the POST
\* last.
C18_Witness ==
    /\ BatchCommand /\ pc = "exited"
    /\ command.test_case_ids = <<"tc1", "tc2">>
    /\ Len(sent) = 5 /\ sent[5].method = "POST"
    /\ Len(locals["test_cases"]) = 2

(***************************************************************************)
(* C19: lookups before mutation.                                           *)
(***************************************************************************)
MutatingMethods == {"POST", "PATCH", "DELETE"}

\* the local variables a command holds once the lookups it makes have returned
LookedUp(name) ==
    IF name \in {"delete-environment", "update-environment"}
    THEN {"application", "environment"}
    ELSE IF name \in {"delete-native-build", "update-native-build"}
    THEN {"application", "native_build"}
    ELSE {"application"}

\* the id the command line gives for a looked-up record
RequestedId(name) ==
    CASE name = "application" -> command.application_id
      [] name = "environment" -> command.environment_id
      [] name = "native_build" ->
            IF "native_build_id" \in DOMAIN command THEN command.native_build_id
            ELSE command.id

OnlyGetsSent == \A k \in 1..Len(sent) : sent[k].method = "GET"

\* C19: in a CLI run a POST, PATCH or DELETE is sent only after the application
\* lookup (and the environment or native-build lookup of delete-environment,
\* update-environment, delete-native-build, update-native-build) returned the
\* record with the requested id, every request before it being a GET; a run whose
\* lookup raised has ended having sent only GET requests.
C19_LookupsBeforeMutation ==
    command /= NoCommand =>
        /\ \A k \in 1..Len(sent) :
               sent[k].method \in MutatingMethods =>
                   /\ \A n \in LookedUp(command.name) :
                          /\ n \in DOMAIN locals
                          /\ locals[n].id = RequestedId(n)
                   /\ k > Cardinality(LookedUp(command.name))
                   /\ invoked[1] = "application_by_id"
                   /\ Cardinality(LookedUp(command.name)) = 2 =>
                          invoked[2] \in {"environment_by_id", "native_build_by_id"}
                   /\ \A j \in 1..(k - 1) : sent[j].method = "GET"
        /\ (invocation.method \in LookupMethods /\ result.raised) =>
               pc = "exited" /\ OnlyGetsSent

\* C19 witness: delete-environment has sent its DELETE after both lookups returned.
C19_Witness ==
    /\ command /= NoCommand /\ command.name = "delete-environment"
    /\ Len(sent) = 3 /\ sent[3].method = "DELETE"
    /\ sent[1].method = "GET" /\ sent[2].method = "GET"
    /\ "environment" \in DOMAIN locals

\* C19 witness of the failing lookup: update-native-build has ended on its
\* native-build lookup raising, having sent two GET requests.
C19_WitnessLookupRaised ==
    /\ command /= NoCommand /\ command.name = "update-native-build"
    /\ pc = "exited" /\ invocation.method = "native_build_by_id" /\ result.raised
    /\ Len(sent) = 2

(***************************************************************************)
(* C20: the headers of one request.                                        *)
(***************************************************************************)
\* the headers argument each SDK method hands to __call
HeadersArgument(inv) ==
    IF inv.method = "create_native_build"
    THEN __get_headers_with_content_type(inv.build)
    ELSE NoneObj

\* headers arguments __call can be given
HeaderArguments ==
    {NoneObj, EmptyDict, ("Content-Type" :> "multipart/form-data"), ("Accept" :> JsonApi)}

\* C20: for every headers argument, __call passes no header without a form body and,
\* with one, the argument when non-empty and otherwise the default content type.
\* In a run, the last request of the run carries no per-request header when it has no
\* form body, whatever headers argument the method gave; with a form body it carries
\* the headers argument when that is non-empty and otherwise Content-Type
\* application/vnd.api+json.  So create_native_build sends Content-Type
\* multipart/form-data for a URL build and application/vnd.api+json for a local file,
\* and only create_native_build sends a form body.
C20_RequestHeaders ==
    /\ \A headers \in HeaderArguments :
           /\ \A data \in {NoneObj, EmptyDict} : request_headers(data, headers) = EmptyDict
           /\ request_headers(("data[type]" :> "nativeApplicationBuild"), headers)
                  = IF headers \in {NoneObj, EmptyDict} THEN ("Content-Type" :> JsonApi)
                    ELSE headers
    /\ (sent /= <<>> /\ invocation /= NoInvocation /\ ~OpenFailed) =>
           LET req == sent[Len(sent)]
               arg == HeadersArgument(invocation)
           IN /\ ~Truthy(req.data) => req.headers = EmptyDict
              /\ (Truthy(req.data) /\ Truthy(arg)) => req.headers = arg
              /\ (Truthy(req.data) /\ ~Truthy(arg)) =>
                     req.headers = ("Content-Type" :> JsonApi)
              /\ Truthy(req.data) <=> invocation.method = "create_native_build"
              /\ invocation.method = "create_native_build" =>
                     /\ __is_url(invocation.build) =>
                            /\ req.headers = ("Content-Type" :> "multipart/form-data")
                            /\ req.files = NoneObj
                     /\ ~__is_url(invocation.build) =>
                            /\ req.headers = ("Content-Type" :> JsonApi)
                            /\ req.files /= NoneObj

\* C20 witness: create_native_build has sent a local file under Content-Type
\* application/vnd.api+json.
C20_Witness ==
    /\ sent /= <<>> /\ invocation.method = "create_native_build"
    /\ ~__is_url(invocation.build) /\ invocation.build \in Files
    /\ sent[Len(sent)].headers = ("Content-Type" :> JsonApi)
    /\ sent[Len(sent)].files /= NoneObj

\* C20 witness of the URL build: multipart/form-data and no file.
C20_WitnessUrl ==
    /\ sent /= <<>> /\ invocation.method = "create_native_build"
    /\ __is_url(invocation.build)
    /\ sent[Len(sent)].headers = ("Content-Type" :> "multipart/form-data")

(***************************************************************************)
(* C21: the build source of create_native_build.                           *)
(***************************************************************************)
VendorUrlField == "data[attributes][external_vendor_url]"

AppFileField == "data[attributes][app_file]"

CreatedNativeBuild == invocation.method = "create_native_build"

\* the last request of the run is the POST of a native build
NativeBuildPosted ==
    /\ sent /= <<>>
    /\ sent[Len(sent)].method = "POST"
    /\ endswith(sent[Len(sent)].url, "/native_application_builds")

\* C21: after create_native_build, a build argument starting with "http" has been
\* posted as the external vendor URL with no file attached, and no file was opened
\* for it (the POST is sent whether or not a file of that name exists); any other
\* argument naming a file on disk has been posted as the attached app file with the
\* external vendor URL None; the POST never carries both sources or neither, and
\* the invocation sends no other POST.
C21_OneBuildSource ==
    CreatedNativeBuild =>
        LET build == invocation.build
            req == sent[Len(sent)]
        IN /\ startswith(build, "http") =>
                  /\ NativeBuildPosted
                  /\ req.data[VendorUrlField] = build
                  /\ req.files = NoneObj
                  /\ ~(call_result.raised /\ call_result.exc = "FileNotFoundError")
           /\ (~startswith(build, "http") /\ build \in Files) =>
                  /\ NativeBuildPosted
                  /\ req.data[VendorUrlField] = None
                  /\ req.files = [py |-> "list", l |-> << <<AppFileField, build>> >>]
           /\ NativeBuildPosted =>
                  (req.files = NoneObj) /= (req.data[VendorUrlField] = None)
           /\ \A k \in 1..(Len(sent) - 1) : sent[k].method /= "POST"

\* C21 witness: a file whose name starts with "http" exists on disk and has been
\* posted as an external vendor URL, unopened.
C21_Witness ==
    /\ CreatedNativeBuild /\ NativeBuildPosted
    /\ invocation.build = "httpd.ipa" /\ invocation.build \in Files
    /\ sent[Len(sent)].data[VendorUrlField] = "httpd.ipa"
    /\ sent[Len(sent)].files = NoneObj

\* C21 witness of the local file: the file is attached and the URL field is None.
C21_WitnessFile ==
    /\ CreatedNativeBuild /\ NativeBuildPosted
    /\ invocation.build = "/builds/shop.ipa"
    /\ sent[Len(sent)].files /= NoneObj
    /\ sent[Len(sent)].data[VendorUrlField] = None

(***************************************************************************)
(* C22: the query string of test_case_runs.                                *)
(***************************************************************************)
\* how many times the one-character string ch occurs in s
Count(ch, s) == Cardinality({k \in 1..Len(s) : SubSeq(s, k, k) = ch})

\* how many times sub occurs in s
Occurrences(sub, s) ==
    Cardinality({k \in 1..(Len(s) - Len(sub) + 1) : SubSeq(s, k, k + Len(sub) - 1) = sub})

\* a filter argument that is None, "", () or [] has no value
Empty(value) == value \in {NoValue, StrValue(""), TupleValue(<<>>), ListValue(<<>>)}

\* the term of one filter, or nothing when the filter has no value
Term(key, value) ==
    IF Empty(value) THEN <<>> ELSE <<"filter[" \o key \o "]=" \o py_str(value)>>

TestCaseRunsPath(inv) ==
    BaseUrl \o "/applications/" \o inv.application.id \o "/test_case_runs_batches/"
        \o inv.batch_id \o "/test_case_runs"

\* C22: the URL of test_case_runs is the path of the batch's test case runs followed,
\* when at least one of ids, outcome, importance has a non-empty value, by one "?"
\* and the terms "filter[<key>]=<value>" of the filters that have one, in the order
\* ids, outcome, importance, joined with "&"; with no filter value the URL is the
\* path and holds no "?".
C22_QueryString ==
    (api /= NoApi /\ invocation.method = "test_case_runs") =>
        LET url == sent[Len(sent)].url
            terms == Term("ids", invocation.test_case_run_ids)
                         \o Term("outcome", invocation.outcome)
                         \o Term("importance", invocation.importance)
        IN /\ Len(terms) = 0 => (url = TestCaseRunsPath(invocation) /\ Count("?", url) = 0)
           /\ Len(terms) = 1 => url = TestCaseRunsPath(invocation) \o "?" \o terms[1]
           /\ Len(terms) = 2 =>
                  url = TestCaseRunsPath(invocation) \o "?" \o terms[1] \o "&" \o terms[2]
           /\ Len(terms) = 3 =>
                  url = TestCaseRunsPath(invocation) \o "?" \o terms[1] \o "&" \o terms[2]
                            \o "&" \o terms[3]
           /\ Len(terms) > 0 =>
                  /\ Count("?", url) = 1
                  /\ Count("&", url) = Len(terms) - 1
           /\ Occurrences("filter[", url) = Len(terms)

\* C22 witness: test_case_runs was given an empty ids tuple and an outcome and an
\* importance: its URL has the two terms of the latter after one "?".
C22_Witness ==
    /\ api /= NoApi /\ invocation.method = "test_case_runs"
    /\ invocation.test_case_run_ids = TupleValue(<<>>)
    /\ invocation.outcome /= NoValue /\ invocation.importance /= NoValue
    /\ Occurrences("filter[", sent[Len(sent)].url) = 2
    /\ Count("?", sent[Len(sent)].url) = 1

\* C22 witness without filters: the URL ends with the path.
C22_WitnessNoFilter ==
    /\ api /= NoApi /\ invocation.method = "test_case_runs"
    /\ invocation.test_case_run_ids = NoValue
    /\ invocation.outcome = NoValue /\ invocation.importance = NoValue
    /\ endswith(sent[Len(sent)].url, "/test_case_runs")

====
